---- MODULE Spec2Model ----
(***************************************************************************)
(* Verification model of parts of fv3net:                                  *)
(*   - fv3fit.reservoir.domain.RankDivider (subdomain partitioning)        *)
(*   - runtime.diagnostics (DiagnosticFile, IntervalTimes)                 *)
(*   - fv3fit.reservoir.ReservoirComputingModel state protocol             *)
(*   - fv3net.regression.keras._packer.ArrayPacker                         *)
(*   - runtime precipitation_sum                                           *)
(*   - emulation.config (ModelConfig / online schedule)                    *)
(* Each component has its own specification (SpecDomain, SpecDiag, ...);   *)
(* the variables of the other components stay at their idle value.         *)
(***************************************************************************)
EXTENDS Integers, Sequences, FiniteSets, TLC

VARIABLES
    \* RankDivider
    divider, dres,
    \* DiagnosticFile and its monitor
    diagFile, ctor, nObserve, nStore, lastStored, nSelected, lastObs,
    \* ReservoirComputingModel
    rcModel, rcOut, rcCall,
    \* ArrayPacker
    packer, pkCall, pkFile, pkSeen,
    \* precipitation_sum
    precipCall,
    \* emulation hooks
    emuConfig, emuMask, emuTime, emuCall,
    \* emulation get_hooks
    hkFile, hkCall,
    \* kube_jobs.wait_for_complete
    kJobs, kApi, kWait,
    \* rerun_fv3.main
    rrCall, rrPc, rrTrace, rrRaised, rrDone,
    \* prognostic_run.py
    prArgs, prPc, prUrl, prTrace, prI,
    \* nc_dir_to_tfdataset
    ncCall,
    \* loaders shuffled
    shCall,
    \* PredictionMapper
    pmCall,
    \* steppers apply
    apCall,
    \* runtime diagnostics
    dgDiags, dgCall,
    \* assure_txyz_dims
    txCall,
    \* netcdf download cache
    opCall,
    \* mock cluster API
    mkApi, mkCall

domainVars == <<divider, dres>>
diagVars == <<diagFile, ctor, nObserve, nStore, lastStored, nSelected, lastObs>>
rcVars == <<rcModel, rcOut, rcCall>>
pkVars == <<packer, pkCall, pkFile, pkSeen>>
precipVars == <<precipCall>>
emuVars == <<emuConfig, emuMask, emuTime, emuCall>>
hkVars == <<hkFile, hkCall>>
kubeVars == <<kJobs, kApi, kWait>>
rrVars == <<rrCall, rrPc, rrTrace, rrRaised, rrDone>>
prVars == <<prArgs, prPc, prUrl, prTrace, prI>>
ncVars == <<ncCall>>
shVars == <<shCall>>
pmVars == <<pmCall>>
apVars == <<apCall>>
dgVars == <<dgDiags, dgCall>>
txVars == <<txCall>>
opVars == <<opCall>>
mkVars == <<mkApi, mkCall>>
vars == <<domainVars, diagVars, rcVars, pkVars, precipVars, emuVars, hkVars, kubeVars, rrVars, prVars, ncVars, shVars, pmVars, apVars, dgVars, txVars, opVars, mkVars>>

\* what an action of one component leaves alone
notDomainVars == <<diagVars, rcVars, pkVars, precipVars, emuVars, hkVars,
    kubeVars, rrVars, prVars, ncVars, shVars, pmVars, apVars, dgVars, txVars,
    opVars, mkVars>>
notDiagVars == <<domainVars, rcVars, pkVars, precipVars, emuVars, hkVars,
    kubeVars, rrVars, prVars, ncVars, shVars, pmVars, apVars, dgVars, txVars,
    opVars, mkVars>>
notRcVars == <<domainVars, diagVars, pkVars, precipVars, emuVars, hkVars,
    kubeVars, rrVars, prVars, ncVars, shVars, pmVars, apVars, dgVars, txVars,
    opVars, mkVars>>
notPkVars == <<domainVars, diagVars, rcVars, precipVars, emuVars, hkVars,
    kubeVars, rrVars, prVars, ncVars, shVars, pmVars, apVars, dgVars, txVars,
    opVars, mkVars>>
notPrecipVars == <<domainVars, diagVars, rcVars, pkVars, emuVars, hkVars,
    kubeVars, rrVars, prVars, ncVars, shVars, pmVars, apVars, dgVars, txVars,
    opVars, mkVars>>
notEmuVars == <<domainVars, diagVars, rcVars, pkVars, precipVars, hkVars,
    kubeVars, rrVars, prVars, ncVars, shVars, pmVars, apVars, dgVars, txVars,
    opVars, mkVars>>
notHkVars == <<domainVars, diagVars, rcVars, pkVars, precipVars, emuVars,
    kubeVars, rrVars, prVars, ncVars, shVars, pmVars, apVars, dgVars, txVars,
    opVars, mkVars>>
notKubeVars == <<domainVars, diagVars, rcVars, pkVars, precipVars, emuVars,
    hkVars, rrVars, prVars, ncVars, shVars, pmVars, apVars, dgVars, txVars,
    opVars, mkVars>>
notRrVars == <<domainVars, diagVars, rcVars, pkVars, precipVars, emuVars,
    hkVars, kubeVars, prVars, ncVars, shVars, pmVars, apVars, dgVars, txVars,
    opVars, mkVars>>
notPrVars == <<domainVars, diagVars, rcVars, pkVars, precipVars, emuVars,
    hkVars, kubeVars, rrVars, ncVars, shVars, pmVars, apVars, dgVars, txVars,
    opVars, mkVars>>
notNcVars == <<domainVars, diagVars, rcVars, pkVars, precipVars, emuVars,
    hkVars, kubeVars, rrVars, prVars, shVars, pmVars, apVars, dgVars, txVars,
    opVars, mkVars>>
notShVars == <<domainVars, diagVars, rcVars, pkVars, precipVars, emuVars,
    hkVars, kubeVars, rrVars, prVars, ncVars, pmVars, apVars, dgVars, txVars,
    opVars, mkVars>>
notPmVars == <<domainVars, diagVars, rcVars, pkVars, precipVars, emuVars,
    hkVars, kubeVars, rrVars, prVars, ncVars, shVars, apVars, dgVars, txVars,
    opVars, mkVars>>
notApVars == <<domainVars, diagVars, rcVars, pkVars, precipVars, emuVars,
    hkVars, kubeVars, rrVars, prVars, ncVars, shVars, pmVars, dgVars, txVars,
    opVars, mkVars>>
notDgVars == <<domainVars, diagVars, rcVars, pkVars, precipVars, emuVars,
    hkVars, kubeVars, rrVars, prVars, ncVars, shVars, pmVars, apVars, txVars,
    opVars, mkVars>>
notTxVars == <<domainVars, diagVars, rcVars, pkVars, precipVars, emuVars,
    hkVars, kubeVars, rrVars, prVars, ncVars, shVars, pmVars, apVars, dgVars,
    opVars, mkVars>>
notOpVars == <<domainVars, diagVars, rcVars, pkVars, precipVars, emuVars,
    hkVars, kubeVars, rrVars, prVars, ncVars, shVars, pmVars, apVars, dgVars,
    txVars, mkVars>>
notMkVars == <<domainVars, diagVars, rcVars, pkVars, precipVars, emuVars,
    hkVars, kubeVars, rrVars, prVars, ncVars, shVars, pmVars, apVars, dgVars,
    txVars, opVars>>

(***************************************************************************)
(* Bounds of the model.                                                    *)
(***************************************************************************)
MaxLayout == 2
MaxExtent == 6
MaxOverlap == 1
MaxNz == 2
MaxDay == 2
MaxObserve == 3
TanhMax == 2
MaxBurnIn == 2
MaxWidth == 2
MaxSteps == 12
MaxJobs == 4
MaxListCalls == 3
MaxTransforms == 2
MaxSegments == 3
MaxNfiles == 3
MaxSamples == 5
MaxVariables == 2

(***************************************************************************)
(* numpy arrays: a shape and the elements in C (row-major) order.          *)
(* Indices of the source are 0-based; sequences here are 1-based, so an    *)
(* axis a of the source is position a+1 of a shape.                        *)
(***************************************************************************)
Min(a, b) == IF a < b THEN a ELSE b

RECURSIVE Prod(_)
Prod(s) == IF s = <<>> THEN 1 ELSE Head(s) * Prod(Tail(s))

\* the sequence of the n elements f[1], ..., f[n]
Elements(f, n) == SubSeq(f, 1, n)

\* 0-based flat offset of the 0-based multi-index idx in an array of this shape
RECURSIVE RavelIndex(_, _)
RavelIndex(shape, idx) ==
    IF shape = <<>> THEN 0
    ELSE Head(idx) * Prod(Tail(shape)) + RavelIndex(Tail(shape), Tail(idx))

\* 0-based multi-index of the 0-based flat offset k
RECURSIVE UnravelIndex(_, _)
UnravelIndex(k, shape) ==
    IF shape = <<>> THEN <<>>
    ELSE LET stride == Prod(Tail(shape))
         IN <<k \div stride>> \o UnravelIndex(k % stride, Tail(shape))

At(arr, idx) == arr.data[RavelIndex(arr.shape, idx) + 1]

NoArray == [shape |-> <<>>, data |-> <<>>]

\* np.arange(prod(shape)).reshape(shape): every cell holds its own position
Arange(shape) ==
    [shape |-> shape, data |-> Elements([k \in 1..Prod(shape) |-> k - 1], Prod(shape))]

\* np.reshape(arr, -1)
Flatten(arr) == [shape |-> <<Len(arr.data)>>, data |-> arr.data]

\* np.reshape(arr, shape) when the sizes agree
Reshape(arr, shape) == [shape |-> shape, data |-> arr.data]

\* arr[..., start:stop, ...] on the (1-based) axis, with Python's clamping of
\* the bounds to the axis length
slice_along_axis(arr, inds, axis) ==
    LET n == arr.shape[axis]
        a == Min(inds.start, n)
        b == Min(inds.stop, n)
        len == IF b > a THEN b - a ELSE 0
        newshape == [arr.shape EXCEPT ![axis] = len]
    IN [shape |-> newshape,
        data |-> Elements([k \in 1..Prod(newshape) |->
                             LET idx == UnravelIndex(k - 1, newshape)
                             IN At(arr, [idx EXCEPT ![axis] = @ + a])],
                          Prod(newshape))]

(***************************************************************************)
(* RankDivider                                                             *)
(***************************************************************************)
NoDivider == [made |-> FALSE, subdomain_layout |-> <<0, 0>>, rank_dims |-> <<>>,
              rank_extent |-> <<0, 0>>, overlap |-> 0]

\* list.index(name), 1-based; 0 when absent
IndexOf(seq, name) ==
    IF \E k \in 1..Len(seq) : seq[k] = name
    THEN CHOOSE k \in 1..Len(seq) : seq[k] = name /\ \A j \in 1..(k - 1) : seq[j] # name
    ELSE 0

Contains(seq, name) == \E k \in 1..Len(seq) : seq[k] = name

\* the two checks of __init__: "ok" or the error raised
RankDividerInitCheck(rank_dims) ==
    IF Contains(rank_dims, "time") \/ Contains(rank_dims, "z") THEN "ValueError"
    ELSE IF ~(Contains(rank_dims, "x") /\ Contains(rank_dims, "y")) THEN "ValueError"
    ELSE "ok"

x_ind(d) == IndexOf(d.rank_dims, "x")
y_ind(d) == IndexOf(d.rank_dims, "y")
n_subdomains(d) == d.subdomain_layout[1] * d.subdomain_layout[2]

_get_rank_extent_without_overlap(d, data_shape, overlap) ==
    [k \in 1..Len(data_shape) |->
        IF k = x_ind(d) \/ k = y_ind(d) THEN data_shape[k] - 2 * overlap
        ELSE data_shape[k]]

rank_extent_without_overlap(d) ==
    _get_rank_extent_without_overlap(d, d.rank_extent, d.overlap)

subdomain_xy_size_without_overlap(d) ==
    rank_extent_without_overlap(d)[x_ind(d)] \div d.subdomain_layout[1]

get_subdomain_extent(d, with_overlap) ==
    LET base == subdomain_xy_size_without_overlap(d)
        subdomain_xy_size == IF with_overlap THEN base + 2 * d.overlap ELSE base
    IN [k \in 1..Len(d.rank_extent) |->
          IF k = x_ind(d) \/ k = y_ind(d) THEN subdomain_xy_size
          ELSE d.rank_extent[k]]

(***************************************************************************)
(* The tile partitioner (pace.util.TilePartitioner) the divider delegates  *)
(* to: the layout is (y count, x count), ranks are numbered row-major in   *)
(* it, and each dimension is cut in equal parts.                           *)
(***************************************************************************)
subtile_index(rank, layout) == <<rank \div layout[2], rank % layout[2]>>

subtile_slice(rank, global_dims, global_extent, layout) ==
    LET ji == subtile_index(rank, layout)
    IN [k \in 1..Len(global_dims) |->
          IF global_dims[k] = "y"
          THEN LET size == global_extent[k] \div layout[1]
               IN [start |-> ji[1] * size, stop |-> ji[1] * size + size]
          ELSE LET size == global_extent[k] \div layout[2]
               IN [start |-> ji[2] * size, stop |-> ji[2] * size + size]]

\* the partitioner's contract covers a positive extent that its layout divides
PartitionDefined(d) ==
    /\ d.made
    /\ Len(d.rank_dims) = 2
    /\ LET e == rank_extent_without_overlap(d)
       IN /\ e[x_ind(d)] > 0 /\ e[y_ind(d)] > 0
          /\ e[x_ind(d)] % d.subdomain_layout[2] = 0
          /\ e[y_ind(d)] % d.subdomain_layout[1] = 0

\* mutant: the overlap branch widens the stop bound by one overlap only
subdomain_slice_one_overlap(d, subdomain_index, with_overlap) ==
    LET slice_ == subtile_slice(subdomain_index, d.rank_dims,
                                rank_extent_without_overlap(d), d.subdomain_layout)
    IN [k \in 1..Len(slice_) |->
          IF with_overlap
          THEN [start |-> slice_[k].start, stop |-> slice_[k].stop + d.overlap]
          ELSE [start |-> slice_[k].start + d.overlap,
                stop |-> slice_[k].stop + d.overlap]]

subdomain_slice(d, subdomain_index, with_overlap) ==
    LET slice_ == subtile_slice(subdomain_index, d.rank_dims,
                                rank_extent_without_overlap(d), d.subdomain_layout)
    IN [k \in 1..Len(slice_) |->
          IF with_overlap
          THEN [start |-> slice_[k].start, stop |-> slice_[k].stop + 2 * d.overlap]
          ELSE [start |-> slice_[k].start + d.overlap,
                stop |-> slice_[k].stop + d.overlap]]

(***************************************************************************)
(* State machine of the RankDivider: construction, then a method call.     *)
(* dres records the last call and what it returned or raised.  No method   *)
(* changes the divider, so one call after construction reaches every       *)
(* result a longer sequence of calls can produce.                          *)
(***************************************************************************)
Layouts == (1..MaxLayout) \X (1..MaxLayout)
RankDimsChoices == {<<"x", "y">>, <<"y", "x">>, <<"x", "y", "time">>,
                    <<"x", "z">>, <<"x">>, <<"x", "y", "tile">>}
RankExtents == (1..MaxExtent) \X (1..MaxExtent)

NoCall == [op |-> "none", index |-> 0, with_overlap |-> FALSE, input |-> NoArray,
           aux |-> NoArray, status |-> "none", slices |-> <<>>, value |-> NoArray]

\* mutant: the shape of the input is not checked
get_subdomain_tensor_slice_unchecked(d, tensor_data, subdomain_index, with_overlap) ==
    LET sl == subdomain_slice(d, subdomain_index, with_overlap)
        tensor_data_xsliced ==
            slice_along_axis(tensor_data, sl[x_ind(d)], x_ind(d))
        tensor_data_xy_sliced ==
            slice_along_axis(tensor_data_xsliced, sl[y_ind(d)], y_ind(d))
    IN [status |-> "ok", value |-> tensor_data_xy_sliced]

get_subdomain_tensor_slice(d, tensor_data, subdomain_index, with_overlap) ==
    IF Len(tensor_data.shape) < 2
       \/ SubSeq(tensor_data.shape, 1, 2) # d.rank_extent
    THEN [status |-> "ValueError", value |-> NoArray]
    ELSE LET sl == subdomain_slice(d, subdomain_index, with_overlap)
             tensor_data_xsliced ==
                 slice_along_axis(tensor_data, sl[x_ind(d)], x_ind(d))
             tensor_data_xy_sliced ==
                 slice_along_axis(tensor_data_xsliced, sl[y_ind(d)], y_ind(d))
         IN [status |-> "ok", value |-> tensor_data_xy_sliced]

unstack_subdomain(d, tensor, with_overlap) ==
    LET subdomain_xy_shape == get_subdomain_extent(d, with_overlap)
        area == Prod(subdomain_xy_shape)
        size == Len(tensor.data)
        vertical_dim_size == size \div area
        unstacked_shape == subdomain_xy_shape \o <<vertical_dim_size>>
        expected_stacked_size == Prod(unstacked_shape)
        last == tensor.shape[Len(tensor.shape)]
    IN IF area = 0
       THEN \* size / 0 is inf (or nan for an empty tensor), which int() rejects
            [status |-> IF size = 0 THEN "ValueError" ELSE "OverflowError",
             value |-> NoArray]
       ELSE IF last # expected_stacked_size
       THEN [status |-> "ValueError", value |-> NoArray]
       ELSE IF vertical_dim_size = 1
       THEN [status |-> "ok", value |-> Reshape(tensor, subdomain_xy_shape)]
       ELSE [status |-> "ok", value |-> Reshape(tensor, unstacked_shape)]

\* np.stack(columns, axis=-1) of equally long 1-D columns
StackColumns(columns) ==
    LET n == Len(columns)
        len == Len(columns[1].data)
    IN [shape |-> <<len, n>>,
        data |-> Elements([k \in 1..(len * n) |->
                             columns[((k - 1) % n) + 1].data[((k - 1) \div n) + 1]],
                          len * n)]

flatten_subdomains_to_columns(d, data, with_overlap) ==
    LET sub(s) == get_subdomain_tensor_slice(d, data, s, with_overlap)
        n == n_subdomains(d)
    IN IF \E s \in 0..(n - 1) : sub(s).status # "ok"
       THEN [status |-> "ValueError", value |-> NoArray]
       ELSE LET subdomains_to_columns ==
                     Elements([s \in 1..n |-> Flatten(sub(s - 1).value)], n)
            IN IF \E s \in 1..n : Len(subdomains_to_columns[s].data)
                                    # Len(subdomains_to_columns[1].data)
               THEN [status |-> "ValueError", value |-> NoArray]
               ELSE [status |-> "ok", value |-> StackColumns(subdomains_to_columns)]

\* column s (0-based) of a 2-D array: arr[:, s]
Column(arr, s) ==
    [shape |-> <<arr.shape[1]>>,
     data |-> Elements([f \in 1..arr.shape[1] |-> At(arr, <<f - 1, s>>)], arr.shape[1])]

\* np.concatenate of 1-D arrays
RECURSIVE ConcatData(_)
ConcatData(arrs) == IF arrs = <<>> THEN <<>> ELSE Head(arrs).data \o ConcatData(Tail(arrs))
Concatenate1D(arrs) == [shape |-> <<Len(ConcatData(arrs))>>, data |-> ConcatData(arrs)]

\* consecutive chunks of the 1-D array form the rows
split_1d_samples_into_2d_rows(arr, n_rows) ==
    LET len == Len(arr.data) \div n_rows
    IN Elements([r \in 1..n_rows |->
                    [shape |-> <<len>>,
                     data |-> SubSeq(arr.data, (r - 1) * len + 1, r * len)]], n_rows)

\* np.concatenate(arr, axis): the sub-arrays arr[0], arr[1], ... joined along the
\* (1-based) axis of the sub-arrays
ConcatenateFirstAxis(arr, axis) ==
    LET sub == Tail(arr.shape)
        m == sub[axis]
        newshape == [sub EXCEPT ![axis] = m * arr.shape[1]]
    IN [shape |-> newshape,
        data |-> Elements([k \in 1..Prod(newshape) |->
                             LET idx == UnravelIndex(k - 1, newshape)
                             IN At(arr, <<idx[axis] \div m>>
                                        \o [idx EXCEPT ![axis] = @ % m])],
                          Prod(newshape))]

merge_subdomains(d, flat_prediction) ==
    LET n == n_subdomains(d)
        size == Len(flat_prediction.data)
        side == subdomain_xy_size_without_overlap(d)
    IN IF size % n # 0
       THEN [status |-> "ValueError", value |-> NoArray]
       ELSE
       LET subdomain_rows == split_1d_samples_into_2d_rows(flat_prediction, n)
           subdomain_2d_predictions ==
               Elements([r \in 1..n |-> unstack_subdomain(d, subdomain_rows[r], FALSE)],
                        n)
       IN IF \E r \in 1..n : subdomain_2d_predictions[r].status # "ok"
          THEN [status |-> subdomain_2d_predictions[1].status, value |-> NoArray]
          ELSE
          LET vertical_dim_size == size \div (n * side * side)
              z_block_dims == d.subdomain_layout \o <<side, side, vertical_dim_size>>
          IN IF Prod(z_block_dims) # size
             THEN [status |-> "ValueError", value |-> NoArray]
             ELSE LET domain_z_blocks == Reshape(flat_prediction, z_block_dims)
                  IN [status |-> "ok",
                      value |-> ConcatenateFirstAxis(
                                    ConcatenateFirstAxis(domain_z_blocks, 3), 1)]

\* a divider has been constructed and no method has been called on it yet
Constructed == dres.op = "__init__" /\ dres.status = "ok" /\ PartitionDefined(divider)

\* input arrays offered to the divider: the rank extent with or without a
\* trailing feature dimension, and one array of another extent
GoodShapes(d) == {d.rank_extent} \cup {d.rank_extent \o <<nz>> : nz \in 1..MaxNz}
WrongShapes(d) == {<<d.rank_extent[1] + 1, d.rank_extent[2]>>}

DomainInit ==
    /\ divider = NoDivider
    /\ dres = NoCall

RankDividerInit ==
    /\ dres = NoCall
    /\ \E layout \in Layouts, dims \in RankDimsChoices, extent \in RankExtents,
          ov \in 0..MaxOverlap :
          LET check == RankDividerInitCheck(dims)
          IN /\ divider' = IF check = "ok"
                           THEN [made |-> TRUE, subdomain_layout |-> layout,
                                 rank_dims |-> dims, rank_extent |-> extent,
                                 overlap |-> ov]
                           ELSE divider
             /\ dres' = [NoCall EXCEPT !.op = "__init__", !.status = check,
                                       !.slices = <<layout, dims, extent, ov>>]
    /\ UNCHANGED notDomainVars

SubdomainSlice ==
    /\ Constructed
    /\ \E i \in 0..(n_subdomains(divider) - 1), wo \in BOOLEAN :
          dres' = [NoCall EXCEPT !.op = "subdomain_slice", !.index = i,
                                 !.with_overlap = wo, !.status = "ok",
                                 !.slices = subdomain_slice(divider, i, wo)]
    /\ UNCHANGED <<divider, notDomainVars>>

GetSubdomainTensorSlice ==
    /\ Constructed
    /\ \E shape \in GoodShapes(divider) \cup WrongShapes(divider),
          i \in 0..(n_subdomains(divider) - 1), wo \in BOOLEAN :
          LET r == get_subdomain_tensor_slice(divider, Arange(shape), i, wo)
          IN dres' = [NoCall EXCEPT !.op = "get_subdomain_tensor_slice", !.index = i,
                                    !.with_overlap = wo, !.input = Arange(shape),
                                    !.slices = subdomain_slice(divider, i, wo),
                                    !.status = r.status, !.value = r.value]
    /\ UNCHANGED <<divider, notDomainVars>>

\* unstack_subdomain applied to a flattened per-subdomain slice (aux)
UnstackSubdomain ==
    /\ Constructed
    /\ \E shape \in GoodShapes(divider),
          i \in 0..(n_subdomains(divider) - 1), wo \in BOOLEAN :
          LET subdomain_arr == get_subdomain_tensor_slice(divider, Arange(shape), i, wo).value
              stacked == Flatten(subdomain_arr)
              r == unstack_subdomain(divider, stacked, wo)
          IN dres' = [NoCall EXCEPT !.op = "unstack_subdomain", !.index = i,
                                    !.with_overlap = wo, !.input = stacked,
                                    !.aux = subdomain_arr,
                                    !.status = r.status, !.value = r.value]
    /\ UNCHANGED <<divider, notDomainVars>>

FlattenSubdomainsToColumns ==
    /\ Constructed
    /\ \E shape \in GoodShapes(divider) \cup WrongShapes(divider), wo \in BOOLEAN :
          LET r == flatten_subdomains_to_columns(divider, Arange(shape), wo)
          IN dres' = [NoCall EXCEPT !.op = "flatten_subdomains_to_columns",
                                    !.with_overlap = wo, !.input = Arange(shape),
                                    !.status = r.status, !.value = r.value]
    /\ UNCHANGED <<divider, notDomainVars>>

\* merge_subdomains applied to the concatenated columns of the halo-free
\* flattening of an (x, y, z) array (aux)
MergeSubdomains ==
    /\ Constructed
    /\ \E nz \in 1..MaxNz :
          LET data_orig == Arange(divider.rank_extent \o <<nz>>)
              subdomain_columns ==
                  flatten_subdomains_to_columns(divider, data_orig, FALSE).value
              prediction ==
                  Concatenate1D(Elements([s \in 1..n_subdomains(divider) |->
                                             Column(subdomain_columns, s - 1)],
                                         n_subdomains(divider)))
              r == merge_subdomains(divider, prediction)
          IN dres' = [NoCall EXCEPT !.op = "merge_subdomains", !.input = prediction,
                                    !.aux = data_orig,
                                    !.status = r.status, !.value = r.value]
    /\ UNCHANGED <<divider, notDomainVars>>

DomainNext ==
    \/ RankDividerInit
    \/ SubdomainSlice
    \/ GetSubdomainTensorSlice
    \/ UnstackSubdomain
    \/ FlattenSubdomainsToColumns
    \/ MergeSubdomains

(***************************************************************************)
(* Claims about the RankDivider (checked under SpecDomain).                *)
(***************************************************************************)
Slice(a, b) == [start |-> a, stop |-> b]

\* a divider the data model calls valid: dims (x, y), and a positive halo-free
\* extent that the layout divides evenly in both dimensions
ValidDivider(d) ==
    /\ PartitionDefined(d)
    /\ d.rank_dims = <<"x", "y">>
    /\ \A k \in 1..2, c \in 1..2 :
          rank_extent_without_overlap(d)[k] % d.subdomain_layout[c] = 0

\* C1: subdomain_slice returns, in x and in y, [start, stop + 2*overlap) with
\* overlap and [start + overlap, stop + overlap) without, where [start, stop) is
\* the partitioner's halo-free slice; for layout (2,2), extent [6,6], overlap 1
\* this is (0..4, 0..4) / (1..3, 1..3) for index 0 and (2..6, 2..6) /
\* (3..5, 3..5) for index 3.
C1_SubdomainSlice ==
    dres.op = "subdomain_slice" =>
        LET base == subtile_slice(dres.index, divider.rank_dims,
                                  rank_extent_without_overlap(divider),
                                  divider.subdomain_layout)
            ov == divider.overlap
            test_case == /\ divider.subdomain_layout = <<2, 2>>
                         /\ divider.rank_extent = <<6, 6>>
                         /\ ov = 1
        IN /\ \A k \in {x_ind(divider), y_ind(divider)} :
                 dres.slices[k] =
                     IF dres.with_overlap
                     THEN Slice(base[k].start, base[k].stop + 2 * ov)
                     ELSE Slice(base[k].start + ov, base[k].stop + ov)
           /\ (test_case /\ dres.index = 0 /\ dres.with_overlap)
                 => dres.slices = <<Slice(0, 4), Slice(0, 4)>>
           /\ (test_case /\ dres.index = 0 /\ ~dres.with_overlap)
                 => dres.slices = <<Slice(1, 3), Slice(1, 3)>>
           /\ (test_case /\ dres.index = 3 /\ dres.with_overlap)
                 => dres.slices = <<Slice(2, 6), Slice(2, 6)>>
           /\ (test_case /\ dres.index = 3 /\ ~dres.with_overlap)
                 => dres.slices = <<Slice(3, 5), Slice(3, 5)>>

C1_Witness ==
    /\ dres.op = "subdomain_slice"
    /\ divider.subdomain_layout = <<2, 2>>
    /\ divider.rank_dims = <<"x", "y">>
    /\ divider.rank_extent = <<6, 6>>
    /\ divider.overlap = 1
    /\ dres.index = 3
    /\ dres.with_overlap
    /\ dres.slices = <<Slice(2, 6), Slice(2, 6)>>

\* C2: for a valid divider and an array of the rank extent, with or without a
\* trailing feature dimension, unstacking the flattened slice of any subdomain
\* succeeds and gives back the slice, shape and elements.
C2_UnstackInvertsFlatten ==
    (dres.op = "unstack_subdomain" /\ ValidDivider(divider))
        => (dres.status = "ok" /\ dres.value = dres.aux)

\* C3: with overlap 0, merge_subdomains of the concatenated columns of the
\* halo-free flattening of an (x, y, z) array gives back the array.
C3_MergeInvertsFlatten ==
    (dres.op = "merge_subdomains" /\ ValidDivider(divider) /\ divider.overlap = 0)
        => (dres.status = "ok" /\ dres.value = dres.aux)

(***************************************************************************)
(* Diagnostic output: time and variable selection policies and the         *)
(* DiagnosticFile that forwards selected diagnostics to a monitor.         *)
(* Times are whole seconds since the start of day 0.                       *)
(***************************************************************************)
SecondsPerDay == 86400

\* container policies: All, an explicit collection, IntervalTimes(frequency)
AllPolicy == [kind |-> "All", members |-> {}, frequency_seconds |-> 0]
ListPolicy(members) == [kind |-> "List", members |-> members, frequency_seconds |-> 0]
IntervalPolicy(f) == [kind |-> "IntervalTimes", members |-> {}, frequency_seconds |-> f]

\* mutant: a frequency of exactly one day is refused too
IntervalTimesInitCheck_daily_refused(frequency_seconds) ==
    IF frequency_seconds >= SecondsPerDay THEN "ValueError" ELSE "ok"

\* IntervalTimes.__init__: "ok" or the error raised
IntervalTimesInitCheck(frequency_seconds) ==
    IF frequency_seconds > SecondsPerDay THEN "ValueError" ELSE "ok"

seconds_since_midnight(time) == time % SecondsPerDay

\* IntervalTimes.__contains__
IntervalTimesContains(frequency_seconds, time) ==
    seconds_since_midnight(time) % frequency_seconds = 0

\* value in policy
PolicyContains(policy, value) ==
    CASE policy.kind = "All" -> TRUE
      [] policy.kind = "List" -> value \in policy.members
      [] policy.kind = "IntervalTimes" ->
            IntervalTimesContains(policy.frequency_seconds, value)

NoMapping == [keys |-> {}, units |-> <<>>, time |-> -1]

\* mutant: every observed field is kept
StoredMapping_unfiltered(file, time, diagnostics) ==
    [keys |-> DOMAIN diagnostics \cup {"time"},
     units |-> [key \in DOMAIN diagnostics |->
                  IF diagnostics[key] = "absent" THEN "unknown" ELSE diagnostics[key]],
     time |-> time]

\* the mapping observe hands to monitor.store: the selected fields, each with
\* its units ("unknown" when the field has none), and the key "time"
StoredMapping(file, time, diagnostics) ==
    LET kept == {key \in DOMAIN diagnostics : PolicyContains(file.variables, key)}
    IN [keys |-> kept \cup {"time"},
        units |-> [key \in kept |->
                     IF diagnostics[key] = "absent" THEN "unknown"
                     ELSE diagnostics[key]],
        time |-> time]

\* mutant: the time policy is not consulted
StoreCallsOf_always(file, time) == 1

\* DiagnosticFile.observe: the number of store calls made by this call
StoreCallsOf(file, time) == IF PolicyContains(file.times, time) THEN 1 ELSE 0

TimesOfDay == {0, 900, 960, 45900}
Times == {day * SecondsPerDay + s : day \in 1..MaxDay, s \in TimesOfDay}
Frequencies == {900, 3600, SecondsPerDay, SecondsPerDay + 1}
TimePolicies == {AllPolicy} \cup {ListPolicy({t}) : t \in Times}
                  \cup {IntervalPolicy(f) : f \in Frequencies}
VariablePolicies == {AllPolicy, ListPolicy({"a"}), ListPolicy({"a", "b"})}
\* observed diagnostics: field name -> units attribute ("absent" when unset)
DiagnosticsChoices ==
    {<<>>} \cup {[key \in {"a"} |-> u] : u \in {"absent", "K"}}
           \cup {[key \in {"a", "b"} |-> "absent"]}
           \cup {[key \in {"b", "c"} |-> "absent"]}

NoDiagFile == [made |-> FALSE, times |-> AllPolicy, variables |-> AllPolicy]
NoCtor == [kind |-> "none", frequency_seconds |-> 0, status |-> "none"]
NoObserve == [called |-> FALSE, time |-> -1, diagnostics |-> <<>>, stored |-> FALSE]

DiagIdle ==
    /\ diagFile = NoDiagFile
    /\ ctor = NoCtor
    /\ nObserve = 0
    /\ nStore = 0
    /\ lastStored = NoMapping
    /\ nSelected = 0
    /\ lastObs = NoObserve

DiagInit == DiagIdle

\* build the time policy (IntervalTimes may refuse) and then the file
NewDiagnosticFile ==
    /\ ctor = NoCtor
    /\ \E times \in TimePolicies, variables \in VariablePolicies :
          LET check == IF times.kind = "IntervalTimes"
                       THEN IntervalTimesInitCheck(times.frequency_seconds)
                       ELSE "ok"
          IN /\ ctor' = [kind |-> times.kind,
                         frequency_seconds |-> times.frequency_seconds,
                         status |-> check]
             /\ diagFile' = IF check = "ok"
                            THEN [made |-> TRUE, times |-> times, variables |-> variables]
                            ELSE diagFile
    /\ UNCHANGED <<nObserve, nStore, lastStored, nSelected, lastObs, notDiagVars>>

Observe ==
    /\ diagFile.made
    /\ nObserve < MaxObserve
    /\ \E time \in Times, diagnostics \in DiagnosticsChoices :
          LET calls == StoreCallsOf(diagFile, time)
          IN /\ nObserve' = nObserve + 1
             /\ nStore' = nStore + calls
             /\ lastStored' = IF calls > 0
                              THEN StoredMapping(diagFile, time, diagnostics)
                              ELSE lastStored
             /\ nSelected' = nSelected + (IF PolicyContains(diagFile.times, time)
                                          THEN 1 ELSE 0)
             /\ lastObs' = [called |-> TRUE, time |-> time,
                            diagnostics |-> diagnostics, stored |-> calls > 0]
    /\ UNCHANGED <<diagFile, ctor, notDiagVars>>

DiagNext ==
    \/ NewDiagnosticFile
    \/ Observe

(***************************************************************************)
(* ReservoirComputingModel: a reservoir with hidden state, advanced by     *)
(* increment_state, read by predict.  Numbers are fixed-point integers and *)
(* tanh is the saturating map onto -TanhMax..TanhMax.                      *)
(***************************************************************************)
Tanh(v) == IF v > TanhMax THEN TanhMax ELSE IF v < -TanhMax THEN -TanhMax ELSE v

RECURSIVE SumSeq(_)
SumSeq(q) == IF q = <<>> THEN 0 ELSE Head(q) + SumSeq(Tail(q))

\* W . v for a matrix given as a sequence of rows
MatVec(W, v) == [i \in 1..Len(W) |-> SumSeq([j \in 1..Len(v) |-> W[i][j] * v[j]])]

Zeros(n) == [i \in 1..n |-> 0]

\* Reservoir.increment_state: state <- tanh(W_res . state + W_in . input)
reservoir_increment_state(m, input) ==
    LET drive == MatVec(m.W_in, input)
        recur == MatVec(m.W_res, m.state)
    IN [m EXCEPT !.state = [i \in 1..Len(m.state) |-> Tanh(recur[i] + drive[i])]]

\* ReservoirComputingModel.reset_state
reset_state(m) == [m EXCEPT !.state = Zeros(Len(m.state))]

\* ReservoirComputingModel.increment_state
increment_state(m, input) == reservoir_increment_state(m, input)

\* the readout: one output per input cell, here the sum of the hidden state
readout_predict(m) == [i \in 1..Len(m.W_in[1]) |-> SumSeq(m.state)]

\* mutant: predicting also steps the reservoir with the prediction
predict_advancing(m) ==
    [model |-> reservoir_increment_state(m, readout_predict(m)),
     output |-> readout_predict(m)]

\* ReservoirComputingModel.predict: the model after the call and the output
predict(m) == [model |-> m, output |-> readout_predict(m)]

\* ReservoirComputingModel.synchronize: increment_state per element, in order
RECURSIVE synchronize(_, _)
synchronize(m, timeseries) ==
    IF timeseries = <<>> THEN m
    ELSE synchronize(increment_state(m, Head(timeseries)), Tail(timeseries))

ReservoirWeights == {<<<<1, 1>>, <<1, 1>>>>, <<<<1, 0>>, <<0, 1>>>>,
                     <<<<0, 1>>, <<-1, 0>>>>}
InputWeights == {<<<<1>>, <<1>>>>, <<<<1>>, <<-1>>>>}
RcInputs == {<<-1>>, <<1>>}

RECURSIVE SeqsUpTo(_, _)
SeqsUpTo(S, n) ==
    IF n = 0 THEN {<<>>}
    ELSE LET shorter == SeqsUpTo(S, n - 1)
         IN shorter \cup {Append(q, x) : q \in shorter, x \in S}

NoRcModel == [made |-> FALSE, W_res |-> <<>>, W_in |-> <<>>, state |-> <<>>]
NoRcCall == [op |-> "none", input |-> <<>>, before |-> <<>>,
             prevOp |-> "none", prevOut |-> <<>>]

RcIdle == rcModel = NoRcModel /\ rcOut = <<>> /\ rcCall = NoRcCall

\* the record of a call; a predict also records the call and output before it
RcCallRecord(op, input) ==
    [op |-> op, input |-> input, before |-> rcModel.state,
     prevOp |-> IF op = "predict" THEN rcCall.op ELSE "none",
     prevOut |-> IF op = "predict" THEN rcOut ELSE <<>>]

\* construction from a trained reservoir; the state starts at zero
RcNew ==
    /\ ~rcModel.made
    /\ \E W_res \in ReservoirWeights, W_in \in InputWeights :
          rcModel' = [made |-> TRUE, W_res |-> W_res, W_in |-> W_in,
                      state |-> Zeros(Len(W_res))]
    /\ rcCall' = RcCallRecord("__init__", <<>>)
    /\ UNCHANGED <<rcOut, notRcVars>>

RcResetState ==
    /\ rcModel.made
    /\ rcModel' = reset_state(rcModel)
    /\ rcCall' = RcCallRecord("reset_state", <<>>)
    /\ UNCHANGED <<rcOut, notRcVars>>

RcIncrementState ==
    /\ rcModel.made
    /\ \E input \in RcInputs :
          /\ rcModel' = increment_state(rcModel, input)
          /\ rcCall' = RcCallRecord("increment_state", <<input>>)
    /\ UNCHANGED <<rcOut, notRcVars>>

RcSynchronize ==
    /\ rcModel.made
    /\ \E timeseries \in SeqsUpTo(RcInputs, MaxBurnIn) :
          /\ rcModel' = synchronize(rcModel, timeseries)
          /\ rcCall' = RcCallRecord("synchronize", timeseries)
    /\ UNCHANGED <<rcOut, notRcVars>>

RcPredict ==
    /\ rcModel.made
    /\ rcModel' = predict(rcModel).model
    /\ rcOut' = predict(rcModel).output
    /\ rcCall' = RcCallRecord("predict", <<>>)
    /\ UNCHANGED notRcVars

RcNext ==
    \/ RcNew
    \/ RcResetState
    \/ RcIncrementState
    \/ RcSynchronize
    \/ RcPredict

(***************************************************************************)
(* ArrayPacker: packs the named variables of a dataset into one row of     *)
(* features and back.  A dataset maps variable names to their feature      *)
(* values; an array is the sequence of features of one sample.             *)
(***************************************************************************)
\* an optional value is the empty set (None) or the set of the one value
None == {}
Some(x) == {x}
Value(opt) == CHOOSE x \in opt : TRUE

PkVariables == {"a", "b"}
PkNames == {<<"a">>, <<"a", "b">>, <<"b", "a">>}
PkValues == {0, 1}
SampleDimName == "sample"

RECURSIVE ConcatAll(_)
ConcatAll(seqs) == IF seqs = <<>> THEN <<>> ELSE Head(seqs) \o ConcatAll(Tail(seqs))

\* _pack: the stacked features of the variables, in order, and their index,
\* one (variable name, offset within the variable) entry per feature
_pack(names, dataset) ==
    [packed |-> ConcatAll([k \in 1..Len(names) |-> dataset[names[k]]]),
     indices |-> ConcatAll([k \in 1..Len(names) |->
                    [o \in 1..Len(dataset[names[k]]) |-> <<names[k], o - 1>>]])]

\* the positions of the index that belong to one variable, in order
RECURSIVE PositionsOf(_, _, _)
PositionsOf(indices, name, k) ==
    IF k > Len(indices) THEN <<>>
    ELSE (IF indices[k][1] = name THEN <<k>> ELSE <<>>)
         \o PositionsOf(indices, name, k + 1)

\* _unpack: label the features with the index and unstack them by variable
_unpack(array, indices) ==
    IF Len(array) # Len(indices)
    THEN [status |-> "ValueError", value |-> None]
    ELSE [status |-> "ok",
          value |-> [name \in {indices[k][1] : k \in 1..Len(indices)} |->
                        LET pos == PositionsOf(indices, name, 1)
                        IN [o \in 1..Len(pos) |-> array[pos[o]]]]]

\* ArrayPacker.__init__
ArrayPackerInit(sample_dim_name, names) ==
    [_indices |-> None, _names |-> names, _sample_dim_name |-> sample_dim_name]

\* mutant: every packing records its index
to_array_overwriting(p, dataset) ==
    IF \E k \in 1..Len(p._names) : p._names[k] \notin DOMAIN dataset
    THEN [status |-> "KeyError", value |-> None, packer |-> p]
    ELSE LET res == _pack(p._names, dataset)
         IN [status |-> "ok", value |-> res.packed,
             packer |-> [p EXCEPT !._indices = Some(res.indices)]]

\* mutant: the index of the first packing is not kept
to_array_forgetful(p, dataset) ==
    IF \E k \in 1..Len(p._names) : p._names[k] \notin DOMAIN dataset
    THEN [status |-> "KeyError", value |-> None, packer |-> p]
    ELSE [status |-> "ok", value |-> _pack(p._names, dataset).packed, packer |-> p]

\* ArrayPacker.to_array: dataset[self.names] raises KeyError for a name the
\* dataset lacks; the index is recorded only while none is recorded
to_array(p, dataset) ==
    IF \E k \in 1..Len(p._names) : p._names[k] \notin DOMAIN dataset
    THEN [status |-> "KeyError", value |-> None, packer |-> p]
    ELSE LET res == _pack(p._names, dataset)
         IN [status |-> "ok", value |-> res.packed,
             packer |-> IF p._indices = None
                        THEN [p EXCEPT !._indices = Some(res.indices)] ELSE p]

\* ArrayPacker.to_dataset
to_dataset(p, array) ==
    IF p._indices = None
    THEN [status |-> "RuntimeError", value |-> None, packer |-> p]
    ELSE [status |-> _unpack(array, Value(p._indices)).status,
          value |-> _unpack(array, Value(p._indices)).value, packer |-> p]

\* str() and int() of an index offset
OffsetText == <<"0", "1", "2", "3", "4", "5", "6", "7", "8", "9">>
NativeType(n) == OffsetText[n + 1]
IntOf(text) == (CHOOSE k \in 1..Len(OffsetText) : OffsetText[k] = text) - 1

_multiindex_to_serializable(multiindex) ==
    [tuples |-> [k \in 1..Len(multiindex) |->
                    <<multiindex[k][1], NativeType(multiindex[k][2])>>],
     names |-> <<"variable", "z">>]

_multiindex_from_serializable(data) ==
    [k \in 1..Len(data.tuples) |-> <<data.tuples[k][1], IntOf(data.tuples[k][2])>>]

\* ArrayPacker.dump: the text written, or the error of serializing no index
dump(p) ==
    IF p._indices = None
    THEN [status |-> "AttributeError", value |-> None, packer |-> p]
    ELSE [status |-> "ok",
          value |-> [indices |-> _multiindex_to_serializable(Value(p._indices)),
                     names |-> p._names,
                     sample_dim_name |-> p._sample_dim_name],
          packer |-> p]

\* ArrayPacker.load
load(data) ==
    [ArrayPackerInit(data.sample_dim_name, data.names)
        EXCEPT !._indices = Some(_multiindex_from_serializable(data.indices))]

\* datasets: each variable absent or with 1..MaxWidth features
PkFeatureSeqs == UNION {[1..w -> PkValues] : w \in 1..MaxWidth}
PkDatasets == UNION {[vs -> PkFeatureSeqs] : vs \in SUBSET PkVariables}
PkArrays == UNION {[1..w -> PkValues] : w \in 1..(MaxWidth + 1)}

NoPacker == [_indices |-> None, _names |-> <<>>, _sample_dim_name |-> ""]
NoPkCall == [op |-> "none", status |-> "none", value |-> None, before |-> NoPacker,
             seenBefore |-> [origin |-> "none", called |-> FALSE, packed |-> FALSE]]
\* origin: how the packer was made; called: to_array was called on it;
\* packed: a to_array call on it returned
NoPkSeen == [origin |-> "none", called |-> FALSE, packed |-> FALSE]

PkIdle == packer = NoPacker /\ pkCall = NoPkCall /\ pkFile = None /\ pkSeen = NoPkSeen

PkCallRecord(op, res) ==
    [op |-> op, status |-> res.status, value |-> res.value, before |-> packer,
     seenBefore |-> pkSeen]

PkNew ==
    /\ pkSeen.origin = "none"
    /\ \E names \in PkNames :
          packer' = ArrayPackerInit(SampleDimName, names)
    /\ pkCall' = PkCallRecord("__init__", [status |-> "ok", value |-> None])
    /\ pkSeen' = [origin |-> "__init__", called |-> FALSE, packed |-> FALSE]
    /\ UNCHANGED <<pkFile, notPkVars>>

PkToArray ==
    /\ pkSeen.origin # "none"
    /\ \E dataset \in PkDatasets :
          LET res == to_array(packer, dataset)
          IN /\ packer' = res.packer
             /\ pkCall' = PkCallRecord("to_array", res)
             /\ pkSeen' = [pkSeen EXCEPT !.called = TRUE,
                                        !.packed = @ \/ res.status = "ok"]
    /\ UNCHANGED <<pkFile, notPkVars>>

PkToDataset ==
    /\ pkSeen.origin # "none"
    /\ \E array \in PkArrays :
          LET res == to_dataset(packer, array)
          IN /\ packer' = res.packer
             /\ pkCall' = PkCallRecord("to_dataset", res)
    /\ UNCHANGED <<pkFile, pkSeen, notPkVars>>

PkDump ==
    /\ pkSeen.origin # "none"
    /\ LET res == dump(packer)
       IN /\ packer' = res.packer
          /\ pkCall' = PkCallRecord("dump", res)
          /\ pkFile' = IF res.status = "ok" THEN Some(res.value) ELSE pkFile
    /\ UNCHANGED <<pkSeen, notPkVars>>

PkLoad ==
    /\ pkFile # None
    /\ packer' = load(Value(pkFile))
    /\ pkCall' = PkCallRecord("load", [status |-> "ok", value |-> None])
    /\ pkSeen' = [origin |-> "load", called |-> FALSE, packed |-> FALSE]
    /\ UNCHANGED <<pkFile, notPkVars>>

PkNext ==
    \/ PkNew
    \/ PkToArray
    \/ PkToDataset
    \/ PkDump
    \/ PkLoad

(***************************************************************************)
(* precipitation_sum.  A float is a record: not-a-number, or a fixed-point *)
(* value counted in thousandths (a length in m is counted in mm).          *)
(***************************************************************************)
NaN == [nan |-> TRUE, v |-> 0]
Num(v) == [nan |-> FALSE, v |-> v]
Thousandths == 1000

FNeg(a) == IF a.nan THEN NaN ELSE Num(-a.v)
FAdd(a, b) == IF a.nan \/ b.nan THEN NaN ELSE Num(a.v + b.v)
\* product of two fixed-point values; the inputs drawn keep it exact
FMul(a, b) == IF a.nan \/ b.nan THEN NaN ELSE Num((a.v * b.v) \div Thousandths)
\* a comparison with NaN is false
FGe(a, b) == ~a.nan /\ ~b.nan /\ a.v >= b.v

\* mutant: the total is not thresholded
where_all(arr, cond, other) == arr

\* DataArray.where(cond, other): keep the elements where cond holds
where(arr, cond, other) == [i \in 1..Len(arr) |-> IF cond[i] THEN arr[i] ELSE other]

m_per_mm == Num(1)

precipitation_sum(physics_precip, column_dq2, dt) ==
    LET ml_precip == [i \in 1..Len(column_dq2) |->
                         FMul(FMul(FNeg(column_dq2[i]), dt), m_per_mm)]
        total_precip == [i \in 1..Len(physics_precip) |->
                            FAdd(physics_precip[i], ml_precip[i])]
        above == [i \in 1..Len(total_precip) |-> FGe(total_precip[i], Num(0))]
    IN [data |-> where(total_precip, above, Num(0)), units |-> "m"]

\* precipitation [m], moistening [kg/m^2/s] and timestep [s] drawn
PhysicsPrecips == {NaN, Num(0), Num(1), Num(3), Num(900)}
ColumnDq2s == {NaN, Num(-2000), Num(-1000), Num(0), Num(1000), Num(2000)}
Timesteps == {Num(1000), Num(450000), Num(900000)}
PrecipLengths == {1, 2}

NoPrecipCall == [called |-> FALSE, physics_precip |-> <<>>, column_dq2 |-> <<>>,
                 dt |-> Num(0), result |-> [data |-> <<>>, units |-> ""]]

PrecipIdle == precipCall = NoPrecipCall

PrecipitationSum ==
    /\ ~precipCall.called
    /\ \E n \in PrecipLengths, dt \in Timesteps :
         \E physics_precip \in [1..n -> PhysicsPrecips],
            column_dq2 \in [1..n -> ColumnDq2s] :
            precipCall' = [called |-> TRUE, physics_precip |-> physics_precip,
                           column_dq2 |-> column_dq2, dt |-> dt,
                           result |-> precipitation_sum(physics_precip, column_dq2, dt)]
    /\ UNCHANGED notPrecipVars

PrecipNext == PrecipitationSum

(***************************************************************************)
(* Emulation configuration: ModelConfig builds a microphysics hook with a  *)
(* mask that routes each timestep to the physics or to the emulator.       *)
(***************************************************************************)
\* IntervalSchedule.__call__: 1 in the first half of each interval counted
\* from initial_time, 0 in the second half
IntervalSchedule(schedule, time) ==
    IF ((time - schedule.initial_time) % schedule.period) * 2 < schedule.period
    THEN 1 ELSE 0

\* TimeMask.__call__: the physics where the schedule gives 1, else the emulator
TimeMask(schedule, time) ==
    IF IntervalSchedule(schedule, time) = 1 THEN "physics" ELSE "emulator"

\* always_right: the emulator's output
always_right == "emulator"

\* mutant: the schedule is ignored
_build_mask_unscheduled(config) == [kind |-> "always_right", schedule |-> None]

\* ModelConfig._build_mask
_build_mask(config) ==
    IF config.online_schedule # None
    THEN [kind |-> "TimeMask", schedule |-> config.online_schedule]
    ELSE [kind |-> "always_right", schedule |-> None]

\* ModelConfig.build: the hook holds the mask
ModelConfigBuild(config) == _build_mask(config)

\* MicrophysicsHook.microphysics: which path supplies the state of this step
microphysics(mask, time) ==
    IF mask.kind = "TimeMask" THEN TimeMask(Value(mask.schedule), time)
    ELSE always_right

SchedulePeriods == {1800, 2700, 3600}
InitialTimes == {0, 900}
EmuTimesteps == {450, 900}
\* seconds between the schedule's initial time and the first timestep of the run
RunStarts == {0, 450}
OnlineSchedules ==
    {None} \cup {Some([period |-> p, initial_time |-> t0]) :
                    p \in SchedulePeriods, t0 \in InitialTimes}

NoEmuConfig == [made |-> FALSE, path |-> "", online_schedule |-> None, dt |-> 0]
NoEmuMask == [kind |-> "none", schedule |-> None]
NoEmuCall == [called |-> FALSE, time |-> 0, route |-> "none", step |-> 0]

EmuIdle ==
    emuConfig = NoEmuConfig /\ emuMask = NoEmuMask /\ emuTime = 0 /\ emuCall = NoEmuCall

\* host start-up: the configuration is read and the hook built once
EmuBuild ==
    /\ ~emuConfig.made
    /\ \E online_schedule \in OnlineSchedules, dt \in EmuTimesteps,
          elapsed \in RunStarts :
          LET config == [made |-> TRUE, path |-> "model.tf",
                         online_schedule |-> online_schedule, dt |-> dt]
          IN /\ emuConfig' = config
             /\ emuMask' = ModelConfigBuild(config)
             /\ emuTime' = elapsed + (IF online_schedule = None THEN 0
                                      ELSE Value(online_schedule).initial_time)
    /\ UNCHANGED <<emuCall, notEmuVars>>

\* one physics timestep of the host: the hook is called, the clock advances
EmuMicrophysics ==
    /\ emuConfig.made
    /\ emuCall.step < MaxSteps
    /\ emuCall' = [called |-> TRUE, time |-> emuTime,
                   route |-> microphysics(emuMask, emuTime),
                   step |-> emuCall.step + 1]
    /\ emuTime' = emuTime + emuConfig.dt
    /\ UNCHANGED <<emuConfig, emuMask, notEmuVars>>

EmuNext ==
    \/ EmuBuild
    \/ EmuMicrophysics

(***************************************************************************)
(* emulation.config.get_hooks: the hooks the host model calls, built from  *)
(* the section zhao_carr_emulation of fv3config.yml.                       *)
(***************************************************************************)
config_key == "zhao_carr_emulation"

\* a hook: the callable and, for a model hook, the model loaded and its mask
do_nothing == [kind |-> "do_nothing", path |-> "", mask |-> NoEmuMask]

\* ModelConfig.build().microphysics: the saved model at path is loaded
MicrophysicsHook(model) ==
    [kind |-> "MicrophysicsHook.microphysics", path |-> model.path,
     mask |-> ModelConfigBuild(model)]

StorageHookStore == [kind |-> "StorageHook.store", path |-> "", mask |-> NoEmuMask]

\* EmulationConfig(): every field defaults to None
EmulationConfigDefault == [model |-> None, gscond |-> None, storage |-> None]

\* EmulationConfig.from_dict: the fields present in the section, None otherwise
EmulationConfigFromDict(section) == section

\* EmulationConfig._build_model
_build_model(model) ==
    IF model = None THEN do_nothing ELSE MicrophysicsHook(Value(model))

build_model_hook(config) == _build_model(config.model)

build_gscond_hook(config) == _build_model(config.gscond)

\* mutant: a storage hook is built whether or not storage is configured
build_storage_hook_always(config) == StorageHookStore

\* EmulationConfig.build_storage_hook
build_storage_hook(config) ==
    IF config.storage = None THEN do_nothing ELSE StorageHookStore

\* yaml.safe_load: an empty document loads as None, a mapping as a dict,
\* a sequence as a list
safe_load(text) ==
    CASE text.kind = "empty" -> [type |-> "NoneType", keys |-> {},
                                 section |-> EmulationConfigDefault]
      [] text.kind = "sequence" -> [type |-> "list", keys |-> {},
                                    section |-> EmulationConfigDefault]
      [] OTHER -> [type |-> "dict", keys |-> text.keys, section |-> text.section]

EmptyDict == [type |-> "dict", keys |-> {}, section |-> EmulationConfigDefault]

\* dict_.get(config_key, {})
DictGet(dict_) ==
    IF config_key \in dict_.keys THEN dict_.section ELSE EmulationConfigDefault

\* the paths of the models a triple of hooks has loaded
ModelsLoaded(hooks) ==
    {hooks[k].path : k \in {j \in 1..Len(hooks) :
                               hooks[j].kind = "MicrophysicsHook.microphysics"}}

NoHooks == <<>>

\* get_hooks: a missing file is replaced by {} with a warning; only dicts
\* have .get
get_hooks(file) ==
    LET dict_ == IF file.exists THEN safe_load(file.text) ELSE EmptyDict
    IN IF dict_.type # "dict"
       THEN [status |-> "AttributeError", hooks |-> NoHooks, warned |-> FALSE]
       ELSE LET config == EmulationConfigFromDict(DictGet(dict_))
            IN [status |-> "ok",
                hooks |-> <<build_gscond_hook(config), build_model_hook(config),
                            build_storage_hook(config)>>,
                warned |-> ~file.exists]

\* the ModelConfig entries a section can hold
HkModelConfigs(path) ==
    {None} \cup {Some([path |-> path, online_schedule |-> sch]) :
                    sch \in OnlineSchedules}

HkSections ==
    {[model |-> mo, gscond |-> gs, storage |-> st] :
        mo \in HkModelConfigs("model.tf"), gs \in HkModelConfigs("gscond.tf"),
        st \in {None, Some("storage")}}

\* the texts fv3config.yml can hold
HkTexts ==
    {[kind |-> "empty", keys |-> {}, section |-> EmulationConfigDefault],
     [kind |-> "sequence", keys |-> {}, section |-> EmulationConfigDefault],
     [kind |-> "mapping", keys |-> {}, section |-> EmulationConfigDefault],
     [kind |-> "mapping", keys |-> {"namelist"}, section |-> EmulationConfigDefault]}
    \cup {[kind |-> "mapping", keys |-> {"namelist", config_key}, section |-> sec] :
             sec \in HkSections}

NoHkFile == [exists |-> FALSE,
             text |-> [kind |-> "empty", keys |-> {}, section |-> EmulationConfigDefault]]
NoHkCall == [called |-> FALSE, status |-> "none", hooks |-> NoHooks, warned |-> FALSE]

HkIdle == hkFile = NoHkFile /\ hkCall = NoHkCall

\* the run directory is prepared: fv3config.yml is written
HkWriteConfig ==
    /\ ~hkFile.exists
    /\ ~hkCall.called
    /\ \E text \in HkTexts : hkFile' = [exists |-> TRUE, text |-> text]
    /\ UNCHANGED <<hkCall, notHkVars>>

\* the host model starts and asks for its hooks
HkGetHooks ==
    /\ ~hkCall.called
    /\ LET res == get_hooks(hkFile)
       IN hkCall' = [called |-> TRUE, status |-> res.status, hooks |-> res.hooks,
                     warned |-> res.warned]
    /\ UNCHANGED <<hkFile, notHkVars>>

HkNext ==
    \/ HkWriteConfig
    \/ HkGetHooks

(***************************************************************************)
(* kube_jobs.wait_for_complete: poll the batch jobs matching a label       *)
(* selector until none is active, then sort them by their final status.    *)
(* The cluster is the mock of the test (every job turns inactive at the    *)
(* second list call) or one whose jobs stop on their own.                  *)
(***************************************************************************)
\* MockBatchV1ApiResponse.from_args: job i succeeds iff i + 1 <= num_successful
\* (jobs are numbered from 1 here, so iff i <= num_successful)
from_args(num_jobs, num_successful, matching) ==
    [i \in 1..num_jobs |->
        [name |-> i, match |-> i \in matching, active |-> TRUE,
         succeeded |-> i <= num_successful, failed |-> ~(i <= num_successful)]]

\* MockBatchV1ApiResponse.make_jobs_inactive
make_jobs_inactive(jobs) == [i \in 1..Len(jobs) |-> [jobs[i] EXCEPT !.active = FALSE]]

\* the names of the listed jobs that satisfy a test, in listing order
RECURSIVE NamesWhere(_, _, _)
NamesWhere(jobs, Test(_), i) ==
    IF i > Len(jobs) THEN <<>>
    ELSE (IF Test(jobs[i]) THEN <<jobs[i].name>> ELSE <<>>)
         \o NamesWhere(jobs, Test, i + 1)

\* get_response_with_matching_labels: the jobs the selector matches
MatchingJobs(jobs) == SelectSeq(jobs, LAMBDA job : job.match)

\* mutant: the wait also needs at least one job to be listed
NoneActive_some_listed(listed) ==
    listed # <<>> /\ \A i \in 1..Len(listed) : ~listed[i].active

\* the wait is over when no listed job is active
NoneActive(listed) == \A i \in 1..Len(listed) : ~listed[i].active

\* mutant: every listed job is reported as a success
SuccessNames_all(listed) == NamesWhere(listed, LAMBDA job : TRUE, 1)

\* the (success, failure) lists of wait_for_complete
SuccessNames(listed) == NamesWhere(listed, LAMBDA job : job.succeeded, 1)
FailNames(listed) == NamesWhere(listed, LAMBDA job : job.failed /\ ~job.succeeded, 1)

\* MockBatchV1Api.list_job_for_all_namespaces: the jobs as the call leaves them
\* (from the second call on the mock first makes every job inactive)
JobsAtListCall(api, jobs) ==
    IF api.mock /\ api.num_list_calls >= 1 THEN make_jobs_inactive(jobs) ELSE jobs

NoKubeApi == [made |-> FALSE, mock |-> FALSE, num_list_calls |-> 0]
NoKubeWait == [pc |-> "idle", success |-> <<>>, fail |-> <<>>]

KubeIdle == kJobs = <<>> /\ kApi = NoKubeApi /\ kWait = NoKubeWait

\* the jobs are submitted and wait_for_complete is called
KubeStart ==
    /\ ~kApi.made
    /\ \E num_jobs \in 0..MaxJobs, mock \in BOOLEAN :
         \E num_successful \in 0..num_jobs, matching \in SUBSET (1..num_jobs) :
            /\ mock => matching = 1..num_jobs
            /\ kJobs' = from_args(num_jobs, num_successful, matching)
            /\ kApi' = [made |-> TRUE, mock |-> mock, num_list_calls |-> 0]
    /\ kWait' = [pc |-> "polling", success |-> <<>>, fail |-> <<>>]
    /\ UNCHANGED notKubeVars

\* one turn of the poll loop: sleep, list, return when nothing is active
KubePoll ==
    /\ kWait.pc = "polling"
    /\ LET jobs == JobsAtListCall(kApi, kJobs)
           listed == MatchingJobs(jobs)
       IN /\ kJobs' = jobs
          /\ kApi' = [kApi EXCEPT !.num_list_calls = Min(@ + 1, MaxListCalls)]
          /\ kWait' = IF NoneActive(listed)
                      THEN [pc |-> "done", success |-> SuccessNames(listed),
                            fail |-> FailNames(listed)]
                      ELSE kWait
    /\ UNCHANGED notKubeVars

\* a job matching the selector runs to its end
KubeMatchingJobStops ==
    /\ kApi.made /\ ~kApi.mock
    /\ \E i \in 1..Len(kJobs) :
          /\ kJobs[i].match /\ kJobs[i].active
          /\ kJobs' = [kJobs EXCEPT ![i].active = FALSE]
    /\ UNCHANGED <<kApi, kWait, notKubeVars>>

\* some other job of the cluster runs to its end
KubeOtherJobStops ==
    /\ kApi.made /\ ~kApi.mock
    /\ \E i \in 1..Len(kJobs) :
          /\ ~kJobs[i].match /\ kJobs[i].active
          /\ kJobs' = [kJobs EXCEPT ![i].active = FALSE]
    /\ UNCHANGED <<kApi, kWait, notKubeVars>>

KubeNext ==
    \/ KubeStart
    \/ KubePoll
    \/ KubeMatchingJobStops
    \/ KubeOtherJobStops

(***************************************************************************)
(* pipelines.rerun_fv3.main: download the restart directory, transform it, *)
(* run the experiment, upload the result.  rrTrace records the calls made, *)
(* in order; every call may raise.                                         *)
(***************************************************************************)
Event(ev, i) == [ev |-> ev, i |-> i]

\* what a call can raise: an Exception, or a BaseException that is not one
RrErrors == {"CalledProcessError", "KeyboardInterrupt"}
IsException(kind) == kind = "CalledProcessError"
RrOutcomes == {"ok"} \cup RrErrors

\* key argument: None with or without GOOGLE_APPLICATION_CREDENTIALS in the
\* environment, an empty key, a key
RrKeys == {"None, credentials in environ", "None, no credentials", "", "key.json"}

\* main, lines 69-78: whether gsutil.authenticate is called
Authenticates(key) == key \in {"None, credentials in environ", "key.json"}

NoRrCall == [called |-> FALSE, key |-> "", n_transforms |-> 0]
NoRaise == [kind |-> "none", from |-> "none"]

RrIdle ==
    /\ rrCall = NoRrCall /\ rrPc = "idle" /\ rrTrace = <<>>
    /\ rrRaised = NoRaise /\ rrDone = 0

\* a call that raises ends main with that exception, unless handled
RrRaise(kind, from) ==
    /\ rrPc' = "raised"
    /\ rrRaised' = [kind |-> kind, from |-> from]

RrMain ==
    /\ rrPc = "idle"
    /\ \E key \in RrKeys, n \in 0..MaxTransforms :
          /\ rrCall' = [called |-> TRUE, key |-> key, n_transforms |-> n]
          /\ rrPc' = IF Authenticates(key) THEN "authenticate" ELSE "download"
    /\ UNCHANGED <<rrTrace, rrRaised, rrDone, notRrVars>>

RrAuthenticate ==
    /\ rrPc = "authenticate"
    /\ rrTrace' = Append(rrTrace, Event("authenticate", 0))
    /\ \E outcome \in RrOutcomes :
          IF outcome = "ok" THEN rrPc' = "download" /\ UNCHANGED rrRaised
          ELSE RrRaise(outcome, "authenticate")
    /\ UNCHANGED <<rrCall, rrDone, notRrVars>>

\* gsutil.copy(restart_dir(time), localdir)
RrDownload ==
    /\ rrPc = "download"
    /\ rrTrace' = Append(rrTrace, Event("download", 0))
    /\ \E outcome \in RrOutcomes :
          IF outcome = "ok"
          THEN /\ rrPc' = IF rrCall.n_transforms > 0 THEN "transform" ELSE "run"
               /\ UNCHANGED rrRaised
          ELSE RrRaise(outcome, "download")
    /\ UNCHANGED <<rrCall, rrDone, notRrVars>>

\* for transform in rundir_transformations: transform(localdir)
RrTransform ==
    /\ rrPc = "transform"
    /\ rrTrace' = Append(rrTrace, Event("transform", rrDone + 1))
    /\ \E outcome \in RrOutcomes :
          IF outcome = "ok"
          THEN /\ rrDone' = rrDone + 1
               /\ rrPc' = IF rrDone + 1 < rrCall.n_transforms THEN "transform" ELSE "run"
               /\ UNCHANGED rrRaised
          ELSE RrRaise(outcome, "transform") /\ UNCHANGED rrDone
    /\ UNCHANGED <<rrCall, notRrVars>>

\* mutant: the handler swallows the failure and main goes on to the upload
AfterRunFailure_swallowed(kind) ==
    IF IsException(kind)
    THEN [trace |-> <<Event("listing", 0)>>, pc |-> "upload", raised |-> NoRaise]
    ELSE [trace |-> <<>>, pc |-> "raised",
          raised |-> [kind |-> kind, from |-> "run_experiment"]]

\* try ... except Exception as e: log the listing, raise e
AfterRunFailure(kind) ==
    IF IsException(kind)
    THEN [trace |-> <<Event("listing", 0)>>, pc |-> "raised",
          raised |-> [kind |-> kind, from |-> "run_experiment"]]
    ELSE [trace |-> <<>>, pc |-> "raised",
          raised |-> [kind |-> kind, from |-> "run_experiment"]]

RrRunExperiment ==
    /\ rrPc = "run"
    /\ \E outcome \in RrOutcomes :
          IF outcome = "ok"
          THEN /\ rrTrace' = Append(rrTrace, Event("run_experiment", 0))
               /\ rrPc' = "upload"
               /\ UNCHANGED rrRaised
          ELSE LET after == AfterRunFailure(outcome)
               IN /\ rrTrace' = Append(rrTrace, Event("run_experiment", 0)) \o after.trace
                  /\ rrPc' = after.pc
                  /\ rrRaised' = after.raised
    /\ UNCHANGED <<rrCall, rrDone, notRrVars>>

\* gsutil.copy(localdir + "/*", output(time))
RrUpload ==
    /\ rrPc = "upload"
    /\ rrTrace' = Append(rrTrace, Event("upload", 0))
    /\ \E outcome \in RrOutcomes :
          IF outcome = "ok" THEN rrPc' = "returned" /\ UNCHANGED rrRaised
          ELSE RrRaise(outcome, "upload")
    /\ UNCHANGED <<rrCall, rrDone, notRrVars>>

RrNext ==
    \/ RrMain
    \/ RrAuthenticate
    \/ RrDownload
    \/ RrTransform
    \/ RrRunExperiment
    \/ RrUpload

(***************************************************************************)
(* projects/microphysics/scripts/prognostic_run.py: create the segmented   *)
(* run, append --segments segments to it, log the run as an artifact.      *)
(* prTrace records the calls made, in order; every call may raise.         *)
(***************************************************************************)
BUCKET == "vcm-ml-scratch"
PROJECT == "2021-10-14-microphsyics-emulation-paper"

\* resolve_url(BUCKET, PROJECT, tag)
resolve_url(bucket, project, tag) == [bucket |-> bucket, project |-> project, tag |-> tag]

\* tag = args.tag or job.id
TagOf(args, job_id) == IF args.tag # "" THEN args.tag ELSE job_id

PrEvent(ev, url) == [ev |-> ev, url |-> url]

PrTags == {"", "run-a"}
PrJobId == "wandb-job-id"
PrOutcomes == {"ok", "CalledProcessError", "KeyboardInterrupt"}

NoPrArgs == [parsed |-> FALSE, tag |-> "", segments |-> 0, online |-> TRUE]
NoUrl == [bucket |-> "", project |-> "", tag |-> ""]

PrIdle ==
    /\ prArgs = NoPrArgs /\ prPc = "idle" /\ prUrl = NoUrl
    /\ prTrace = <<>> /\ prI = 0

\* lines 64-84: the arguments are parsed, the url of the run is resolved
PrSetup ==
    /\ prPc = "idle"
    /\ \E tag \in PrTags, segments \in 0..MaxSegments, online \in BOOLEAN :
          LET args == [parsed |-> TRUE, tag |-> tag, segments |-> segments,
                       online |-> online]
          IN /\ prArgs' = args
             /\ prUrl' = resolve_url(BUCKET, PROJECT, TagOf(args, PrJobId))
    /\ prPc' = "create"
    /\ UNCHANGED <<prTrace, prI, notPrVars>>

\* mutant: the loop runs one segment more
SegmentsLeft_one_more(i, segments) == i < segments + 1

\* for i in range(args.segments)
SegmentsLeft(i, segments) == i < segments

\* api.create(url, config)
PrCreate ==
    /\ prPc = "create"
    /\ prTrace' = Append(prTrace, PrEvent("create", prUrl))
    /\ \E outcome \in PrOutcomes :
          prPc' = IF outcome # "ok" THEN "raised"
                  ELSE IF SegmentsLeft(0, prArgs.segments) THEN "append"
                  ELSE "log_artifact"
    /\ UNCHANGED <<prArgs, prUrl, prI, notPrVars>>

\* api.append(url), segment prI + 1
PrAppend ==
    /\ prPc = "append"
    /\ prTrace' = Append(prTrace, PrEvent("append", prUrl))
    /\ \E outcome \in PrOutcomes :
          IF outcome # "ok" THEN prPc' = "raised" /\ UNCHANGED prI
          ELSE /\ prI' = prI + 1
               /\ prPc' = IF SegmentsLeft(prI + 1, prArgs.segments) THEN "append"
                          ELSE "log_artifact"
    /\ UNCHANGED <<prArgs, prUrl, notPrVars>>

\* wandb.log_artifact(artifact), the artifact referring to url
PrLogArtifact ==
    /\ prPc = "log_artifact"
    /\ prTrace' = Append(prTrace, PrEvent("log_artifact", prUrl))
    /\ \E outcome \in PrOutcomes :
          prPc' = IF outcome = "ok" THEN "exited" ELSE "raised"
    /\ UNCHANGED <<prArgs, prUrl, prI, notPrVars>>

PrNext ==
    \/ PrSetup
    \/ PrCreate
    \/ PrAppend
    \/ PrLogArtifact

(***************************************************************************)
(* fv3fit.data.netcdf.load.nc_dir_to_tfdataset: which files of a directory *)
(* are read, and in which order.  A path is <<directory, basename>>, each  *)
(* a sequence of characters.                                               *)
(***************************************************************************)
\* Path(f).name
Basename(path) == path[2]

\* the path as one string
PathString(path) == path[1] \o <<"/">> \o path[2]

\* re.search for a literal pattern: it occurs somewhere in the text
re_search(pattern, text) ==
    \E i \in 0..(Len(text) - Len(pattern)) :
        SubSeq(text, i + 1, i + Len(pattern)) = pattern

\* mutant: the pattern is searched in the whole path
MatchesFile_whole_path(match, f) == re_search(match, PathString(f))

\* re.search(match, Path(f).name)
MatchesFile(match, f) == re_search(match, Basename(f))

\* files[:nfiles] for nfiles >= 0
Truncate(files, nfiles) == SubSeq(files, 1, Min(nfiles, Len(files)))

\* the orders random_state.choice(files, size=len(files), replace=False) can give
Orders(n) == {p \in [1..n -> 1..n] : \A i, j \in 1..n : p[i] = p[j] => i = j}

Reordered(files, p) == [i \in 1..Len(files) |-> files[p[i]]]

\* nc_dir_to_tfdataset up to the file list handed to nc_files_to_tf_dataset;
\* order is the draw of the random state
SelectedFiles(listing, match, shuffle, order, nfiles) ==
    LET matching == IF match # None
                    THEN SelectSeq(listing, LAMBDA f : MatchesFile(Value(match), f))
                    ELSE listing
        shuffled_files == IF shuffle THEN Reordered(matching, order) ELSE matching
    IN IF nfiles # None THEN Truncate(shuffled_files, Value(nfiles))
       ELSE shuffled_files

\* the directory: files in listing order
NcPool == <<  <<<<"d">>, <<"a", "1">>>>,  <<<<"d">>, <<"a", "2">>>>,
              <<<<"a">>, <<"b", "1">>>>,  <<<<"d">>, <<"b", "2">>>>  >>
NcListings ==
    {SelectSeq(NcPool, LAMBDA f : f \in present) :
        present \in SUBSET {NcPool[k] : k \in 1..Len(NcPool)}}
NcMatches == {None, Some(<<"a">>), Some(<<"b">>), Some(<<"1">>), Some(<<"b", "2">>)}
NcNfiles == {None} \cup {Some(k) : k \in 0..MaxNfiles}

NoNcCall == [called |-> FALSE, listing |-> <<>>, match |-> None, shuffle |-> FALSE,
             nfiles |-> None, files |-> <<>>]

NcIdle == ncCall = NoNcCall

NumMatching(listing, match) ==
    IF match = None THEN Len(listing)
    ELSE Len(SelectSeq(listing, LAMBDA f : MatchesFile(Value(match), f)))

NcDirToTfdataset ==
    /\ ~ncCall.called
    /\ \E listing \in NcListings, match \in NcMatches, shuffle \in BOOLEAN,
          nfiles \in NcNfiles :
          \E order \in Orders(NumMatching(listing, match)) :
             ncCall' = [called |-> TRUE, listing |-> listing, match |-> match,
                        shuffle |-> shuffle, nfiles |-> nfiles,
                        files |-> SelectedFiles(listing, match, shuffle, order, nfiles)]
    /\ UNCHANGED notNcVars

NcNext == NcDirToTfdataset

(***************************************************************************)
(* loaders._utils.shuffled: shuffle a dataset along a dimension, within    *)
(* its chunks.  Indices count from 0; the random state is given by the     *)
(* rank it draws for each index.                                           *)
(***************************************************************************)
\* list(range(start, stop))
Range(start, stop) == [k \in 1..(stop - start) |-> start + k - 1]

\* mutant: the chunks are ignored, the whole dimension is one chunk
_get_chunk_indices_whole(chunks) == <<Range(0, SumSeq(chunks))>>

\* _get_chunk_indices: the indices of each chunk, chunk after chunk
RECURSIVE ChunkIndicesFrom(_, _)
ChunkIndicesFrom(chunks, start) ==
    IF chunks = <<>> THEN <<>>
    ELSE <<Range(start, start + Head(chunks))>>
         \o ChunkIndicesFrom(Tail(chunks), start + Head(chunks))

_get_chunk_indices(chunks) == ChunkIndicesFrom(chunks, 0)

\* random.permutation(indices): the indices in the order of the ranks drawn
permutation(indices, rank) ==
    [p \in 1..Len(indices) |->
        CHOOSE i \in {indices[k] : k \in 1..Len(indices)} :
            Cardinality({j \in {indices[k] : k \in 1..Len(indices)} :
                            rank[j + 1] <= rank[i + 1]}) = p]

\* dataset.isel({dim: inds})
isel(data, inds) == [p \in 1..Len(inds) |-> data[inds[p] + 1]]

\* dataset.chunks.get(dim, (len(dataset[dim]),))
ChunksOf(dataset) ==
    IF dataset.chunks = None THEN <<Len(dataset.data)>> ELSE Value(dataset.chunks)

shuffled_inds(dataset, rank) ==
    LET chunk_indices == _get_chunk_indices(ChunksOf(dataset))
    IN ConcatAll([k \in 1..Len(chunk_indices) |-> permutation(chunk_indices[k], rank)])

shuffled(dataset, rank) ==
    [dataset EXCEPT !.data = isel(dataset.data, shuffled_inds(dataset, rank))]

\* the ways to cut n samples into chunks of at least one sample
RECURSIVE Chunkings(_)
Chunkings(n) ==
    IF n = 0 THEN {<<>>}
    ELSE UNION {{<<first>> \o rest : rest \in Chunkings(n - first)} : first \in 1..n}

\* datasets of 1..MaxSamples samples, sample k holding the value 10 + k
ShDatasets ==
    UNION {{[data |-> [k \in 1..n |-> 10 + k], chunks |-> ch] :
               ch \in {None} \cup {Some(c) : c \in Chunkings(n)}} :
           n \in 1..MaxSamples}

NoShCall == [called |-> FALSE, dataset |-> [data |-> <<>>, chunks |-> None],
             inds |-> <<>>, result |-> [data |-> <<>>, chunks |-> None]]

ShIdle == shCall = NoShCall

Shuffled ==
    /\ ~shCall.called
    /\ \E dataset \in ShDatasets :
         \E rank \in Orders(Len(dataset.data)) :
            shCall' = [called |-> TRUE, dataset |-> dataset,
                       inds |-> shuffled_inds(dataset, rank),
                       result |-> shuffled(dataset, rank)]
    /\ UNCHANGED notShVars

ShNext == Shuffled

(***************************************************************************)
(* offline_ml_diags PredictionMapper.__getitem__: the requested variables  *)
(* are looked up (found in the data or derived from it), one after the     *)
(* other, before the model predicts.                                       *)
(***************************************************************************)
DELP == "pressure_thickness_of_atmospheric_layer"

PmNames == {DELP, "pQ1", "pQ2", "dQ1", "air_temperature"}

NoLookup == [status |-> "none", error_key |-> "", derived |-> {}, zeros |-> {},
             warnings |-> <<>>]

\* derived_mapping[key]: KeyError unless the variable is found or derivable
Derivable(available, key) == key \in available

\* the handler of the KeyError for key: DELP and other variables re-raise; pQ1
\* and pQ2 become zeros shaped like dQ1, looked up in its turn, with a warning
OnKeyError(available, key, sofar) ==
    IF key = DELP
    THEN [sofar EXCEPT !.status = "KeyError", !.error_key = key]
    ELSE IF key \in {"pQ1", "pQ2"}
    THEN IF Derivable(available, "dQ1")
         THEN [sofar EXCEPT !.derived = @ \cup {key}, !.zeros = @ \cup {key},
                            !.warnings = Append(@, key)]
         ELSE [sofar EXCEPT !.status = "KeyError", !.error_key = "dQ1"]
    ELSE [sofar EXCEPT !.status = "KeyError", !.error_key = key]

\* for key in self._variables: ..., up to the first exception that propagates
RECURSIVE DeriveAll(_, _, _)
DeriveAll(available, variables, sofar) ==
    IF variables = <<>> \/ sofar.status = "KeyError" THEN sofar
    ELSE DeriveAll(available, Tail(variables),
                   IF Derivable(available, Head(variables))
                   THEN [sofar EXCEPT !.derived = @ \cup {Head(variables)}]
                   ELSE OnKeyError(available, Head(variables), sofar))

\* PredictionMapper.__getitem__: the lookup, then the prediction
PredictionMapperGetItem(available, variables) ==
    LET looked == DeriveAll(available, variables,
                            [NoLookup EXCEPT !.status = "looking"])
    IN IF looked.status = "KeyError" THEN looked
       ELSE [looked EXCEPT !.status = "ok"]

\* the requested variables: up to MaxVariables distinct names, in an order
PmVariables ==
    {q \in SeqsUpTo(PmNames, MaxVariables) : \A i, j \in 1..Len(q) : q[i] = q[j] => i = j}

NoPmCall == [called |-> FALSE, available |-> {}, variables |-> <<>>,
             result |-> NoLookup]

PmIdle == pmCall = NoPmCall

PmGetItem ==
    /\ ~pmCall.called
    /\ \E available \in SUBSET PmNames, variables \in PmVariables :
          pmCall' = [called |-> TRUE, available |-> available, variables |-> variables,
                     result |-> PredictionMapperGetItem(available, variables)]
    /\ UNCHANGED notPmVars

PmNext == PmGetItem

(***************************************************************************)
(* runtime.steppers.base.apply: the state fields updated by tendencies.    *)
(* A mapping with insertion order (a dict) is a sequence of                *)
(* <<name, value>> pairs with distinct names.                              *)
(***************************************************************************)
\* runtime.names.TENDENCY_TO_STATE_NAME
TENDENCY_TO_STATE_NAME ==
    << <<"dQ1", "air_temperature">>, <<"dQ2", "specific_humidity">>,
       <<"dQu", "eastward_wind">>, <<"dQv", "northward_wind">>,
       <<"dQp", "pressure_thickness_of_atmospheric_layer">> >>

Keys(dict) == {dict[k][1] : k \in 1..Len(dict)}
Get(dict, key) == dict[CHOOSE k \in 1..Len(dict) : dict[k][1] = key][2]

\* dict[key] = value: a present key keeps its place, a new one goes last
SetItem(dict, key, value) ==
    IF key \in Keys(dict)
    THEN [k \in 1..Len(dict) |-> IF dict[k][1] = key THEN <<key, value>> ELSE dict[k]]
    ELSE Append(dict, <<key, value>>)

\* mutant: the table is not consulted
StateNameOf_identity(name) == name

\* TENDENCY_TO_STATE_NAME.get(name, name)
StateNameOf(name) ==
    IF name \in Keys(TENDENCY_TO_STATE_NAME)
    THEN Get(TENDENCY_TO_STATE_NAME, name) ELSE name

\* the loop of apply over the tendency names still to do
RECURSIVE ApplyLoop(_, _, _, _)
ApplyLoop(state, todo, dt, res) ==
    IF todo = <<>> \/ res.status # "ok" THEN res
    ELSE LET name == Head(todo)[1]
             state_name == StateNameOf(name)
         IN ApplyLoop(state, Tail(todo), dt,
               IF state_name \notin Keys(state)
               THEN [res EXCEPT !.status = "KeyError"]
               ELSE [res EXCEPT !.updated =
                        SetItem(@, state_name,
                                Get(state, state_name) + Head(todo)[2] * dt)])

\* apply(state, tendency, dt): what is returned and the arguments afterwards
apply(state, tendency, dt) ==
    LET res == ApplyLoop(state, tendency, dt, [status |-> "ok", updated |-> <<>>])
    IN [status |-> res.status,
        updated |-> IF res.status = "ok" THEN res.updated ELSE <<>>,
        state |-> state, tendency |-> tendency]

ApTendencyNames == {"dQ1", "dQ2", "air_temperature"}
ApTendencyValues == {-1, 2}
ApTimesteps == {1, 3}

\* tendencies: distinct names in any order
ApTendencies ==
    {q \in SeqsUpTo(ApTendencyNames \X ApTendencyValues, Cardinality(ApTendencyNames)) :
        \A i, j \in 1..Len(q) : q[i][1] = q[j][1] => i = j}

\* states: x_wind has no tendency; specific_humidity may be absent
ApStates ==
    {<<<<"air_temperature", t>>, <<"x_wind", 7>>>> : t \in {0, 5}}
    \cup {<<<<"air_temperature", t>>, <<"specific_humidity", 1>>, <<"x_wind", 7>>>> :
             t \in {0, 5}}

NoApCall == [called |-> FALSE, state |-> <<>>, tendency |-> <<>>, dt |-> 0,
             result |-> [status |-> "none", updated |-> <<>>, state |-> <<>>,
                         tendency |-> <<>>]]

ApIdle == apCall = NoApCall

Apply ==
    /\ ~apCall.called
    /\ \E state \in ApStates, tendency \in ApTendencies, dt \in ApTimesteps :
          apCall' = [called |-> TRUE, state |-> state, tendency |-> tendency,
                     dt |-> dt, result |-> apply(state, tendency, dt)]
    /\ UNCHANGED notApVars

ApNext == Apply

(***************************************************************************)
(* runtime.diagnostics.compute: compute_diagnostics,                       *)
(* compute_ml_momentum_diagnostics and rename_diagnostics.                 *)
(* A diagnostics mapping is a dict (a sequence of <<key, value>> pairs).   *)
(* A name is the sequence of its words, the parts between underscores, so  *)
(* that an f-string or a suffix is a concatenation.  A DataArray is one    *)
(* column: its values over z (one value when column integrated) and its    *)
(* attrs.  An attribute text is the sequence of its pieces.                *)
(***************************************************************************)
cp == 1004

TEMP == "air_temperature"
SPHUM == "specific_humidity"

\* the inverse of TENDENCY_TO_STATE_NAME
STATE_NAME_TO_TENDENCY ==
    [k \in 1..Len(TENDENCY_TO_STATE_NAME) |->
        <<TENDENCY_TO_STATE_NAME[k][2], TENDENCY_TO_STATE_NAME[k][1]>>]

\* the words of a name
Words(name) ==
    CASE name = "air_temperature" -> <<"air", "temperature">>
      [] name = "specific_humidity" -> <<"specific", "humidity">>
      [] name = "pressure_thickness_of_atmospheric_layer" ->
            <<"pressure", "thickness", "of", "atmospheric", "layer">>
      [] name = "eastward_wind" -> <<"eastward", "wind">>
      [] name = "northward_wind" -> <<"northward", "wind">>
      [] name = "machine_learning" -> <<"machine", "learning">>
      [] OTHER -> <<name>>

NoAttrs == <<>>

DataArray(values, attrs) == [values |-> values, attrs |-> attrs]

\* dict.update(other)
RECURSIVE DictUpdate(_, _)
DictUpdate(dict, other) ==
    IF other = <<>> THEN dict
    ELSE DictUpdate(SetItem(dict, Head(other)[1], Head(other)[2]), Tail(other))

\* DataArray.assign_attrs(**new): a copy whose attrs are updated with new
assign_attrs(da, new) == [da EXCEPT !.attrs = DictUpdate(@, new)]

\* attrs.get(key, "")
AttrGet(attrs, key) == IF key \in Keys(attrs) THEN Get(attrs, key) ELSE <<>>

zeros_like(da) == [da EXCEPT !.values = Zeros(Len(@))]
ones_like(da) == [da EXCEPT !.values = [z \in 1..Len(@) |-> 1]]

\* vcm.mass_integrate(da, delp, dim="z"): the sum over z of da * delp / g;
\* pressure thickness is counted in units of g, and the product of two
\* arrays carries no attrs
mass_integrate(da, delp) ==
    DataArray(<<SumSeq([z \in 1..Len(da.values) |-> da.values[z] * delp.values[z]])>>,
              NoAttrs)

SpecificHeatConstVolume == 717

\* vcm.column_integrated_heating_from_isobaric_transition
column_integrated_heating_from_isobaric_transition(dtemperature_dt, delp) ==
    LET integral == mass_integrate(dtemperature_dt, delp)
    IN [integral EXCEPT !.values = <<cp * @[1]>>]

\* vcm.column_integrated_heating_from_isochoric_transition
column_integrated_heating_from_isochoric_transition(dtemperature_dt, delp) ==
    LET integral == mass_integrate(dtemperature_dt, delp)
    IN [integral EXCEPT !.values = <<SpecificHeatConstVolume * @[1]>>]

\* tendency.get(name, default)
GetOr(dict, key, default) == IF key \in Keys(dict) THEN Get(dict, key) ELSE default

\* the 3-D tendencies under "nudging": every tendency, renamed by the table
NudgingDiags3d(tendency) ==
    [k \in 1..Len(tendency) |->
        <<Words(Get(TENDENCY_TO_STATE_NAME, tendency[k][1]))
              \o <<"tendency", "due", "to", "nudging">>,
          tendency[k][2]>>]

\* the 3-D tendencies under "machine_learning": dQ1 and dQ2 only
MachineLearningDiags3d(temperature_tendency, humidity_tendency, label) ==
    << <<Words("dQ1"),
         assign_attrs(assign_attrs(temperature_tendency, <<<<"units", <<"K/s">>>>>>),
            <<<<"description", <<"air temperature tendency due to ", label>>>>>>)>>,
       <<Words("dQ2"),
         assign_attrs(assign_attrs(humidity_tendency, <<<<"units", <<"kg/kg/s">>>>>>),
            <<<<"description", <<"specific humidity tendency due to ", label>>>>>>)>> >>

\* mutant: the 3-D block of machine_learning is the default of every label
Diags3dOf_defaulted(tendency, temperature_tendency, humidity_tendency, label) ==
    IF label = "nudging"
    THEN (IF Keys(tendency) \subseteq Keys(TENDENCY_TO_STATE_NAME)
          THEN Some(NudgingDiags3d(tendency)) ELSE None)
    ELSE Some(MachineLearningDiags3d(temperature_tendency, humidity_tendency, label))

\* if label == "nudging" ... elif label == "machine_learning" ...: diags_3d
\* is unbound for any other label
Diags3dOf(tendency, temperature_tendency, humidity_tendency, label) ==
    IF label = "nudging"
    THEN (IF Keys(tendency) \subseteq Keys(TENDENCY_TO_STATE_NAME)
          THEN Some(NudgingDiags3d(tendency)) ELSE None)
    ELSE IF label = "machine_learning"
    THEN Some(MachineLearningDiags3d(temperature_tendency, humidity_tendency, label))
    ELSE None

DgError(name) == [status |-> name, diags |-> <<>>]

\* compute_diagnostics(state, tendency, label, hydrostatic)
compute_diagnostics(state, tendency, label, hydrostatic) ==
    IF DELP \notin Keys(state) THEN DgError("KeyError")
    ELSE
    LET delp == Get(state, DELP)
        temperature_tendency == GetOr(tendency, "dQ1", zeros_like(delp))
        humidity_tendency == GetOr(tendency, "dQ2", zeros_like(delp))
        net_heating ==
            IF hydrostatic
            THEN column_integrated_heating_from_isobaric_transition(
                     temperature_tendency, delp)
            ELSE column_integrated_heating_from_isochoric_transition(
                     temperature_tendency, delp)
        diags ==
            << <<(<<"net", "moistening", "due", "to">> \o Words(label)),
                 assign_attrs(mass_integrate(humidity_tendency, delp),
                    << <<"units", <<"kg/m^2/s">>>>,
                       <<"description",
                         <<"column integrated moisture tendency due to ", label>>>> >>)>>,
               <<(<<"column", "heating", "due", "to">> \o Words(label)),
                 assign_attrs(assign_attrs(net_heating, <<<<"units", <<"W/m^2">>>>>>),
                    <<<<"description", <<"column integrated heating due to ", label>>>>>>)>> >>
        delp_tendency == Get(STATE_NAME_TO_TENDENCY, DELP)
        with_mass ==
            IF delp_tendency \in Keys(tendency)
            THEN SetItem(diags, <<"net", "mass", "tendency", "due", "to">> \o Words(label),
                    assign_attrs(
                       mass_integrate(ones_like(Get(tendency, delp_tendency)),
                                      Get(tendency, delp_tendency)),
                       << <<"units", <<"kg/m^2/s">>>>,
                          <<"description",
                            <<"column-integrated mass tendency due to ", label>>>> >>))
            ELSE diags
        diags_3d == Diags3dOf(tendency, temperature_tendency, humidity_tendency, label)
    IN IF diags_3d = None
       THEN DgError(IF label = "nudging" THEN "KeyError" ELSE "UnboundLocalError")
       ELSE IF ~({TEMP, SPHUM} \subseteq Keys(state)) THEN DgError("KeyError")
       ELSE [status |-> "ok",
             diags |-> DictUpdate(DictUpdate(with_mass, Value(diags_3d)),
                          << <<Words(TEMP), Get(state, TEMP)>>,
                             <<Words(SPHUM), Get(state, SPHUM)>>,
                             <<Words(DELP), Get(state, DELP)>> >>)]

\* compute_ml_momentum_diagnostics(state, tendency)
compute_ml_momentum_diagnostics(state, tendency) ==
    IF DELP \notin Keys(state) THEN DgError("KeyError")
    ELSE
    LET delp == Get(state, DELP)
        dQu == GetOr(tendency, "dQu", zeros_like(delp))
        dQv == GetOr(tendency, "dQv", zeros_like(delp))
        column_integrated_dQu == mass_integrate(dQu, delp)
        column_integrated_dQv == mass_integrate(dQv, delp)
    IN [status |-> "ok",
        diags |->
          << <<Words("dQu"),
               assign_attrs(assign_attrs(dQu, <<<<"units", <<"m s^-2">>>>>>),
                  <<<<"description", <<"zonal wind tendency due to ML">>>>>>)>>,
             <<Words("dQv"),
               assign_attrs(assign_attrs(dQv, <<<<"units", <<"m s^-2">>>>>>),
                  <<<<"description", <<"meridional wind tendency due to ML">>>>>>)>>,
             <<(<<"column", "integrated", "dQu", "stress">>),
               assign_attrs(column_integrated_dQu,
                  << <<"units", <<"Pa">>>>,
                     <<"description",
                       <<"column integrated zonal wind tendency due to ML">>>> >>)>>,
             <<(<<"column", "integrated", "dQv", "stress">>),
               assign_attrs(column_integrated_dQv,
                  << <<"units", <<"Pa">>>>,
                     <<"description",
                       <<"column integrated meridional wind tendency due to ML">>>> >>)>> >>]

ml_tendencies ==
    { <<"net", "moistening", "due", "to", "machine", "learning">>,
      <<"net", "heating", "due", "to", "machine", "learning">>,
      <<"column", "integrated", "dQu">>,
      <<"column", "integrated", "dQv">>,
      <<"override", "for", "time", "adjusted", "total", "sky", "downward",
        "shortwave", "flux", "at", "surface">>,
      <<"override", "for", "time", "adjusted", "total", "sky", "net",
        "shortwave", "flux", "at", "surface">>,
      <<"override", "for", "time", "adjusted", "total", "sky", "downward",
        "longwave", "flux", "at", "surface">> }

\* mutant: the original key is left as computed
RenameOne_kept(diags, variable) ==
    LET attrs == Get(diags, variable).attrs
    IN SetItem(diags, Append(variable, "diagnostic"),
          assign_attrs(Get(diags, variable),
             <<<<"description",
                 Append(AttrGet(attrs, "description"), " (diagnostic only)")>>>>))

\* the body of the loop of rename_diagnostics for one variable
RenameOne(diags, variable) ==
    LET attrs == Get(diags, variable).attrs
        moved == SetItem(diags, Append(variable, "diagnostic"),
                    assign_attrs(Get(diags, variable),
                       <<<<"description",
                           Append(AttrGet(attrs, "description"), " (diagnostic only)")>>>>))
    IN SetItem(moved, variable,
          assign_attrs(zeros_like(Get(moved, variable)), attrs))

\* rename_diagnostics(diags), the set ml_tendencies & set(diags) being
\* iterated in the given order; what diags holds afterwards
RECURSIVE rename_diagnostics(_, _)
rename_diagnostics(diags, order) ==
    IF order = <<>> THEN diags
    ELSE rename_diagnostics(RenameOne(diags, Head(order)), Tail(order))

\* the orders in which a set can be iterated
IterationOrders(S) ==
    {q \in SeqsUpTo(S, Cardinality(S)) :
        Len(q) = Cardinality(S) /\ {q[k] : k \in 1..Len(q)} = S}

MaxRenames == 2

DgColumn(values) == DataArray(values, NoAttrs)

\* states: temperature, humidity and pressure thickness, or no temperature
DgStates ==
    { << <<TEMP, DgColumn(<<3, 4>>)>>, <<SPHUM, DgColumn(<<5, 6>>)>>,
         <<DELP, DgColumn(<<1, 2>>)>> >>,
      << <<SPHUM, DgColumn(<<5, 6>>)>>, <<DELP, DgColumn(<<1, 2>>)>> >>,
      << <<TEMP, DgColumn(<<3, 4>>)>>, <<SPHUM, DgColumn(<<5, 6>>)>> >> }

DgTendencyPool ==
    << <<"dQ1", DgColumn(<<1, -1>>)>>, <<"dQ2", DgColumn(<<2, 1>>)>>,
       <<"dQp", DgColumn(<<-1, 3>>)>>, <<"dQu", DgColumn(<<1, 1>>)>> >>

\* tendencies: any of the pool
DgTendencies ==
    {SelectSeq(DgTendencyPool, LAMBDA pair : pair[1] \in names) :
        names \in SUBSET Keys(DgTendencyPool)}

DgLabels == {"nudging", "machine_learning", "physics"}

DgGivenKeys ==
    << <<"net", "moistening", "due", "to", "machine", "learning">>,
       <<"column", "integrated", "dQu">>,
       <<"column", "heating", "due", "to", "machine", "learning">> >>

DgGivenValues ==
    { DataArray(<<7>>, << <<"units", <<"Pa">>>>, <<"description", <<"computed">>>> >>),
      DataArray(<<8, 9>>, NoAttrs) }

\* diagnostics handed over by a caller: each key absent or with a value
DgGivenDiags ==
    {SelectSeq([k \in 1..Len(DgGivenKeys) |-> <<DgGivenKeys[k], choice[k]>>],
               LAMBDA pair : pair[2] \in DgGivenValues) :
        choice \in [1..Len(DgGivenKeys) -> DgGivenValues \cup {DataArray(<<>>, NoAttrs)}]}

NoDgCall == [op |-> "none", status |-> "none", state |-> <<>>, tendency |-> <<>>,
             label |-> "", hydrostatic |-> FALSE, momentum |-> FALSE,
             before |-> None, renames |-> 0]

DgIdle == dgDiags = None /\ dgCall = NoDgCall

\* a caller has a diagnostics mapping of its own
DgGiven ==
    /\ dgCall.op = "none"
    /\ \E diags \in DgGivenDiags :
          /\ dgDiags' = Some(diags)
          /\ dgCall' = [dgCall EXCEPT !.op = "given", !.status = "ok"]
    /\ UNCHANGED notDgVars

DgComputeDiagnostics ==
    /\ dgCall.op = "none"
    /\ \E state \in DgStates, tendency \in DgTendencies, label \in DgLabels,
          hydrostatic \in BOOLEAN :
          LET res == compute_diagnostics(state, tendency, label, hydrostatic)
          IN /\ dgDiags' = IF res.status = "ok" THEN Some(res.diags) ELSE None
             /\ dgCall' = [dgCall EXCEPT !.op = "compute_diagnostics",
                              !.status = res.status, !.state = state,
                              !.tendency = tendency, !.label = label,
                              !.hydrostatic = hydrostatic]
    /\ UNCHANGED notDgVars

\* the momentum diagnostics of the same state and tendency join the mapping
DgComputeMlMomentumDiagnostics ==
    /\ dgCall.op = "compute_diagnostics"
    /\ dgCall.status = "ok"
    /\ LET res == compute_ml_momentum_diagnostics(dgCall.state, dgCall.tendency)
       IN /\ dgDiags' = Some(DictUpdate(Value(dgDiags), res.diags))
          /\ dgCall' = [dgCall EXCEPT !.op = "compute_ml_momentum_diagnostics",
                           !.status = res.status, !.momentum = TRUE]
    /\ UNCHANGED notDgVars

DgRenameDiagnostics ==
    /\ dgDiags # None
    /\ dgCall.renames < MaxRenames
    /\ \E order \in IterationOrders(ml_tendencies \cap Keys(Value(dgDiags))) :
          dgDiags' = Some(rename_diagnostics(Value(dgDiags), order))
    /\ dgCall' = [dgCall EXCEPT !.op = "rename_diagnostics", !.status = "ok",
                     !.before = dgDiags, !.renames = @ + 1]
    /\ UNCHANGED notDgVars

DgNext ==
    \/ DgGiven
    \/ DgComputeDiagnostics
    \/ DgComputeMlMomentumDiagnostics
    \/ DgRenameDiagnostics

(***************************************************************************)
(* fv3fit.reservoir.domain.assure_txyz_dims                                *)
(***************************************************************************)
MaxTensors == 3

\* mutant: a tensor of three dims is passed on as it is
AssureOne_unchanged(var_data) ==
    IF Len(var_data.shape) = 4 \/ Len(var_data.shape) = 3
    THEN [status |-> "ok", value |-> var_data]
    ELSE [status |-> "ValueError", value |-> NoArray]

\* the body of the loop of assure_txyz_dims for one tensor
AssureOne(var_data) ==
    IF Len(var_data.shape) = 4
    THEN [status |-> "ok", value |-> var_data]
    ELSE IF Len(var_data.shape) = 3
    THEN [status |-> "ok", value |-> Reshape(var_data, var_data.shape \o <<1>>)]
    ELSE [status |-> "ValueError", value |-> NoArray]

\* the loop of assure_txyz_dims over the tensors still to do
RECURSIVE AssureLoop(_, _)
AssureLoop(todo, reshaped_tensors) ==
    IF todo = <<>> THEN [status |-> "ok", value |-> reshaped_tensors]
    ELSE LET one == AssureOne(Head(todo))
         IN IF one.status # "ok" THEN [status |-> one.status, value |-> <<>>]
            ELSE AssureLoop(Tail(todo), Append(reshaped_tensors, one.value))

assure_txyz_dims(variable_tensors) == AssureLoop(variable_tensors, <<>>)

\* tensors of two to five dims, every cell holding its own position
TxShapes == {<<2, 1>>, <<2, 1, 2>>, <<1, 2, 1>>, <<2, 1, 2, 2>>, <<1, 1, 1, 1>>,
             <<1, 2, 1, 1, 1>>}
TxTensors == {Arange(shape) : shape \in TxShapes}

NoTxCall == [called |-> FALSE, input |-> <<>>, status |-> "none", value |-> <<>>]

TxIdle == txCall = NoTxCall

AssureTxyzDims ==
    /\ ~txCall.called
    /\ \E variable_tensors \in SeqsUpTo(TxTensors, MaxTensors) :
          LET r == assure_txyz_dims(variable_tensors)
          IN txCall' = [called |-> TRUE, input |-> variable_tensors,
                        status |-> r.status, value |-> r.value]
    /\ UNCHANGED notTxVars

TxNext == AssureTxyzDims

(***************************************************************************)
(* fv3fit.data.netcdf.load: the download cache directory on the way from   *)
(* nc_dir_to_tfdataset and NCDirLoader.open_tfdataset to                   *)
(* open_netcdf_dataset.  Reading the dataset opens its files in order.     *)
(***************************************************************************)
CACHE_DIR == ".cache"

\* open_netcdf_dataset(path, cache): the download_cached call it makes
open_netcdf_dataset(path, cache) == [path |-> path, cache |-> cache]

\* nc_files_to_tf_dataset(files, convert, cache): the files opened when the
\* dataset is read
nc_files_to_tf_dataset(files, cache) ==
    [k \in 1..Len(files) |-> open_netcdf_dataset(files[k], cache)]

\* cache or CACHE_DIR: None and the empty string are false
CacheOrDefault(cache) ==
    IF cache = None \/ cache = Some("") THEN CACHE_DIR ELSE Value(cache)

\* nc_dir_to_tfdataset(nc_dir, convert, nfiles, shuffle, random_state, cache,
\* match): cache is rebound, and nc_files_to_tf_dataset is called without
\* it, so with the default of its own parameter
nc_dir_to_tfdataset(listing, nfiles, shuffle, order, cache, match) ==
    LET cache_ == CacheOrDefault(cache)
        files == SelectedFiles(listing, match, shuffle, order, nfiles)
    IN nc_files_to_tf_dataset(files, CACHE_DIR)

\* NCDirLoader.open_tfdataset(local_download_path, variable_names)
open_tfdataset(loader, order, local_download_path) ==
    nc_dir_to_tfdataset(loader.url, loader.nfiles, loader.shuffle, order,
                        local_download_path, None)

OpCaches == {None, Some(""), Some("/scratch"), Some(CACHE_DIR)}

NoOpCall == [called |-> "none", cache |-> None, opened |-> <<>>]

OpIdle == opCall = NoOpCall

OpNcDirToTfdataset ==
    /\ opCall.called = "none"
    /\ \E listing \in NcListings, nfiles \in NcNfiles, cache \in OpCaches :
          opCall' = [called |-> "nc_dir_to_tfdataset", cache |-> cache,
                     opened |-> nc_dir_to_tfdataset(listing, nfiles, FALSE, <<>>,
                                                    cache, None)]
    /\ UNCHANGED notOpVars

OpOpenTfdataset ==
    /\ opCall.called = "none"
    /\ \E listing \in NcListings, nfiles \in NcNfiles, shuffle \in BOOLEAN,
          local_download_path \in OpCaches :
          \E order \in Orders(Len(listing)) :
             opCall' = [called |-> "open_tfdataset", cache |-> local_download_path,
                        opened |-> open_tfdataset(
                                      [url |-> listing, nfiles |-> nfiles,
                                       shuffle |-> shuffle],
                                      order, local_download_path)]
    /\ UNCHANGED notOpVars

OpNext == OpNcDirToTfdataset \/ OpOpenTfdataset

(***************************************************************************)
(* tests/test_kube_jobs_utils.py: MockBatchV1Api under a caller that keeps *)
(* listing the jobs.                                                       *)
(***************************************************************************)
MaxMockCalls == 8
StuckLoopCalls == 5

\* MockBatchV1Api.list_job_for_all_namespaces(label_selector): the mock
\* afterwards and what the call returns or raises
list_job_for_all_namespaces(api) ==
    IF api.num_list_calls >= 1
    THEN LET jobs == make_jobs_inactive(api.response)
         IN [status |-> "ok",
             api |-> [api EXCEPT !.response = jobs,
                                 !.num_list_calls = @ + 1],
             items |-> MatchingJobs(jobs)]
    ELSE IF api.num_list_calls > StuckLoopCalls
    THEN [status |-> "TimeoutError", api |-> api, items |-> <<>>]
    ELSE [status |-> "ok",
          api |-> [api EXCEPT !.num_list_calls = @ + 1],
          items |-> MatchingJobs(api.response)]

NoMockApi == [made |-> FALSE, response |-> <<>>, num_list_calls |-> 0]
NoMockCall == [calls |-> 0, status |-> "none", items |-> <<>>]

MkIdle == mkApi = NoMockApi /\ mkCall = NoMockCall

\* MockBatchV1Api(MockBatchV1ApiResponse.from_args(...))
MkNew ==
    /\ ~mkApi.made
    /\ \E num_jobs \in 0..MaxJobs :
         \E num_successful \in 0..num_jobs :
            mkApi' = [made |-> TRUE,
                      response |-> from_args(num_jobs, num_successful, 1..num_jobs),
                      num_list_calls |-> 0]
    /\ UNCHANGED <<mkCall, notMkVars>>

\* the caller lists the jobs once more
MkListJobs ==
    /\ mkApi.made
    /\ mkCall.calls < MaxMockCalls
    /\ LET r == list_job_for_all_namespaces(mkApi)
       IN /\ mkApi' = r.api
          /\ mkCall' = [calls |-> mkCall.calls + 1, status |-> r.status,
                        items |-> r.items]
    /\ UNCHANGED notMkVars

MkNext == MkNew \/ MkListJobs

(***************************************************************************)
(* Specifications: one per component.                                      *)
(***************************************************************************)
DomainIdle == divider = NoDivider /\ dres = NoCall

InitDomain ==
    /\ DomainInit
    /\ DiagIdle
    /\ RcIdle
    /\ PkIdle
    /\ PrecipIdle
    /\ EmuIdle
    /\ HkIdle
    /\ KubeIdle
    /\ RrIdle
    /\ PrIdle
    /\ NcIdle
    /\ ShIdle
    /\ PmIdle
    /\ ApIdle
    /\ DgIdle
    /\ TxIdle
    /\ OpIdle
    /\ MkIdle
SpecDomain == InitDomain /\ [][DomainNext]_vars

InitDiag ==
    /\ DiagInit
    /\ DomainIdle
    /\ RcIdle
    /\ PkIdle
    /\ PrecipIdle
    /\ EmuIdle
    /\ HkIdle
    /\ KubeIdle
    /\ RrIdle
    /\ PrIdle
    /\ NcIdle
    /\ ShIdle
    /\ PmIdle
    /\ ApIdle
    /\ DgIdle
    /\ TxIdle
    /\ OpIdle
    /\ MkIdle
SpecDiag == InitDiag /\ [][DiagNext]_vars

InitReservoir ==
    /\ RcIdle
    /\ DomainIdle
    /\ DiagIdle
    /\ PkIdle
    /\ PrecipIdle
    /\ EmuIdle
    /\ HkIdle
    /\ KubeIdle
    /\ RrIdle
    /\ PrIdle
    /\ NcIdle
    /\ ShIdle
    /\ PmIdle
    /\ ApIdle
    /\ DgIdle
    /\ TxIdle
    /\ OpIdle
    /\ MkIdle
SpecReservoir == InitReservoir /\ [][RcNext]_vars

InitPacker ==
    /\ PkIdle
    /\ DomainIdle
    /\ DiagIdle
    /\ RcIdle
    /\ PrecipIdle
    /\ EmuIdle
    /\ HkIdle
    /\ KubeIdle
    /\ RrIdle
    /\ PrIdle
    /\ NcIdle
    /\ ShIdle
    /\ PmIdle
    /\ ApIdle
    /\ DgIdle
    /\ TxIdle
    /\ OpIdle
    /\ MkIdle
SpecPacker == InitPacker /\ [][PkNext]_vars

InitPrecip ==
    /\ PrecipIdle
    /\ DomainIdle
    /\ DiagIdle
    /\ RcIdle
    /\ PkIdle
    /\ EmuIdle
    /\ HkIdle
    /\ KubeIdle
    /\ RrIdle
    /\ PrIdle
    /\ NcIdle
    /\ ShIdle
    /\ PmIdle
    /\ ApIdle
    /\ DgIdle
    /\ TxIdle
    /\ OpIdle
    /\ MkIdle
SpecPrecip == InitPrecip /\ [][PrecipNext]_vars

InitEmu ==
    /\ EmuIdle
    /\ DomainIdle
    /\ DiagIdle
    /\ RcIdle
    /\ PkIdle
    /\ PrecipIdle
    /\ HkIdle
    /\ KubeIdle
    /\ RrIdle
    /\ PrIdle
    /\ NcIdle
    /\ ShIdle
    /\ PmIdle
    /\ ApIdle
    /\ DgIdle
    /\ TxIdle
    /\ OpIdle
    /\ MkIdle
SpecEmu == InitEmu /\ [][EmuNext]_vars

InitHooks ==
    /\ HkIdle
    /\ DomainIdle
    /\ DiagIdle
    /\ RcIdle
    /\ PkIdle
    /\ PrecipIdle
    /\ EmuIdle
    /\ KubeIdle
    /\ RrIdle
    /\ PrIdle
    /\ NcIdle
    /\ ShIdle
    /\ PmIdle
    /\ ApIdle
    /\ DgIdle
    /\ TxIdle
    /\ OpIdle
    /\ MkIdle
SpecHooks == InitHooks /\ [][HkNext]_vars

InitKube ==
    /\ KubeIdle
    /\ DomainIdle
    /\ DiagIdle
    /\ RcIdle
    /\ PkIdle
    /\ PrecipIdle
    /\ EmuIdle
    /\ HkIdle
    /\ RrIdle
    /\ PrIdle
    /\ NcIdle
    /\ ShIdle
    /\ PmIdle
    /\ ApIdle
    /\ DgIdle
    /\ TxIdle
    /\ OpIdle
    /\ MkIdle
SpecKube == InitKube /\ [][KubeNext]_vars
\* the poll loop keeps running, and a matching job that is active gets to stop
SpecKubeFair ==
    SpecKube /\ WF_vars(KubePoll) /\ WF_vars(KubeMatchingJobStops)

InitRerun ==
    /\ RrIdle
    /\ DomainIdle
    /\ DiagIdle
    /\ RcIdle
    /\ PkIdle
    /\ PrecipIdle
    /\ EmuIdle
    /\ HkIdle
    /\ KubeIdle
    /\ PrIdle
    /\ NcIdle
    /\ ShIdle
    /\ PmIdle
    /\ ApIdle
    /\ DgIdle
    /\ TxIdle
    /\ OpIdle
    /\ MkIdle
SpecRerun == InitRerun /\ [][RrNext]_vars

InitProgRun ==
    /\ PrIdle
    /\ DomainIdle
    /\ DiagIdle
    /\ RcIdle
    /\ PkIdle
    /\ PrecipIdle
    /\ EmuIdle
    /\ HkIdle
    /\ KubeIdle
    /\ RrIdle
    /\ NcIdle
    /\ ShIdle
    /\ PmIdle
    /\ ApIdle
    /\ DgIdle
    /\ TxIdle
    /\ OpIdle
    /\ MkIdle
SpecProgRun == InitProgRun /\ [][PrNext]_vars

InitNcDir ==
    /\ NcIdle
    /\ DomainIdle
    /\ DiagIdle
    /\ RcIdle
    /\ PkIdle
    /\ PrecipIdle
    /\ EmuIdle
    /\ HkIdle
    /\ KubeIdle
    /\ RrIdle
    /\ PrIdle
    /\ ShIdle
    /\ PmIdle
    /\ ApIdle
    /\ DgIdle
    /\ TxIdle
    /\ OpIdle
    /\ MkIdle
SpecNcDir == InitNcDir /\ [][NcNext]_vars

InitShuffled ==
    /\ ShIdle
    /\ DomainIdle
    /\ DiagIdle
    /\ RcIdle
    /\ PkIdle
    /\ PrecipIdle
    /\ EmuIdle
    /\ HkIdle
    /\ KubeIdle
    /\ RrIdle
    /\ PrIdle
    /\ NcIdle
    /\ PmIdle
    /\ ApIdle
    /\ DgIdle
    /\ TxIdle
    /\ OpIdle
    /\ MkIdle
SpecShuffled == InitShuffled /\ [][ShNext]_vars

InitMapper ==
    /\ PmIdle
    /\ DomainIdle
    /\ DiagIdle
    /\ RcIdle
    /\ PkIdle
    /\ PrecipIdle
    /\ EmuIdle
    /\ HkIdle
    /\ KubeIdle
    /\ RrIdle
    /\ PrIdle
    /\ NcIdle
    /\ ShIdle
    /\ ApIdle
    /\ DgIdle
    /\ TxIdle
    /\ OpIdle
    /\ MkIdle
SpecMapper == InitMapper /\ [][PmNext]_vars

InitApply ==
    /\ ApIdle
    /\ DomainIdle
    /\ DiagIdle
    /\ RcIdle
    /\ PkIdle
    /\ PrecipIdle
    /\ EmuIdle
    /\ HkIdle
    /\ KubeIdle
    /\ RrIdle
    /\ PrIdle
    /\ NcIdle
    /\ ShIdle
    /\ PmIdle
    /\ DgIdle
    /\ TxIdle
    /\ OpIdle
    /\ MkIdle
SpecApply == InitApply /\ [][ApNext]_vars

InitDiagnostics ==
    /\ DgIdle
    /\ DomainIdle
    /\ DiagIdle
    /\ RcIdle
    /\ PkIdle
    /\ PrecipIdle
    /\ EmuIdle
    /\ HkIdle
    /\ KubeIdle
    /\ RrIdle
    /\ PrIdle
    /\ NcIdle
    /\ ShIdle
    /\ PmIdle
    /\ ApIdle
    /\ TxIdle
    /\ OpIdle
    /\ MkIdle
SpecDiagnostics == InitDiagnostics /\ [][DgNext]_vars

InitTxyz ==
    /\ TxIdle
    /\ DomainIdle
    /\ DiagIdle
    /\ RcIdle
    /\ PkIdle
    /\ PrecipIdle
    /\ EmuIdle
    /\ HkIdle
    /\ KubeIdle
    /\ RrIdle
    /\ PrIdle
    /\ NcIdle
    /\ ShIdle
    /\ PmIdle
    /\ ApIdle
    /\ DgIdle
    /\ OpIdle
    /\ MkIdle
SpecTxyz == InitTxyz /\ [][TxNext]_vars

InitNcOpen ==
    /\ OpIdle
    /\ DomainIdle
    /\ DiagIdle
    /\ RcIdle
    /\ PkIdle
    /\ PrecipIdle
    /\ EmuIdle
    /\ HkIdle
    /\ KubeIdle
    /\ RrIdle
    /\ PrIdle
    /\ NcIdle
    /\ ShIdle
    /\ PmIdle
    /\ ApIdle
    /\ DgIdle
    /\ TxIdle
    /\ MkIdle
SpecNcOpen == InitNcOpen /\ [][OpNext]_vars

InitMock ==
    /\ MkIdle
    /\ DomainIdle
    /\ DiagIdle
    /\ RcIdle
    /\ PkIdle
    /\ PrecipIdle
    /\ EmuIdle
    /\ HkIdle
    /\ KubeIdle
    /\ RrIdle
    /\ PrIdle
    /\ NcIdle
    /\ ShIdle
    /\ PmIdle
    /\ ApIdle
    /\ DgIdle
    /\ TxIdle
    /\ OpIdle
SpecMock == InitMock /\ [][MkNext]_vars

(***************************************************************************)
(* Claims about diagnostic output (checked under SpecDiag).                *)
(***************************************************************************)
TimeSelectedByFile(time) ==
    \/ diagFile.times.kind = "All"
    \/ diagFile.times.kind = "List" /\ time \in diagFile.times.members
    \/ /\ diagFile.times.kind = "IntervalTimes"
       /\ (time % SecondsPerDay) % diagFile.times.frequency_seconds = 0

\* C4: store has been called exactly once for each observe call whose time the
\* time policy selects and never for another call: the number of store calls
\* equals the number of time-selected observe calls so far, and the last
\* observe call stored iff its time is selected.
C4_StoreOncePerSelectedTime ==
    /\ nStore = nSelected
    /\ nStore <= nObserve
    /\ lastObs.called => (lastObs.stored <=> TimeSelectedByFile(lastObs.time))

C4_Witness ==
    /\ diagFile.times.kind = "List"
    /\ nObserve = 2
    /\ nStore = 1
    /\ lastObs.called /\ ~lastObs.stored

\* C5: a mapping forwarded to the monitor holds the key time and exactly those
\* observed fields the variable policy selects; with variables = ["a"] and
\* fields a, b observed it holds time and a and not b.
C5_VariableSelection ==
    (lastObs.called /\ lastObs.stored) =>
        /\ "time" \in lastStored.keys
        /\ \A key \in DOMAIN lastObs.diagnostics :
              key \in lastStored.keys
                <=> (diagFile.variables.kind = "All"
                       \/ key \in diagFile.variables.members)
        /\ lastStored.keys \subseteq DOMAIN lastObs.diagnostics \cup {"time"}
        /\ (diagFile.variables = ListPolicy({"a"})
              /\ DOMAIN lastObs.diagnostics = {"a", "b"})
             => lastStored.keys = {"time", "a"}

C5_Witness ==
    /\ lastObs.called /\ lastObs.stored
    /\ diagFile.variables = ListPolicy({"a"})
    /\ DOMAIN lastObs.diagnostics = {"a", "b"}
    /\ lastStored.keys = {"time", "a"}

\* C6: IntervalTimes(frequency_seconds) is refused iff frequency_seconds exceeds
\* 86400 (86400 itself is accepted), and a time is contained iff its seconds
\* since midnight are a multiple of frequency_seconds: with 900, 00:15 and 12:45
\* are contained and 00:16 is not; with 86400 every midnight is contained.
C6_IntervalTimes ==
    /\ ctor.kind = "IntervalTimes" =>
          /\ ctor.status = "ValueError" <=> ctor.frequency_seconds > 86400
          /\ ctor.status = "ok" <=> ctor.frequency_seconds <= 86400
          /\ ctor.status = "ok" <=> diagFile.made
    /\ (diagFile.made /\ diagFile.times.kind = "IntervalTimes" /\ lastObs.called) =>
          LET f == diagFile.times.frequency_seconds
              since_midnight == lastObs.time % 86400
          IN /\ lastObs.stored <=> (\E n \in 0..(86400 \div f) : since_midnight = n * f)
             /\ (f = 900 /\ since_midnight \in {15 * 60, 12 * 3600 + 45 * 60})
                   => lastObs.stored
             /\ (f = 900 /\ since_midnight = 16 * 60) => ~lastObs.stored
             /\ (f = 86400 /\ since_midnight = 0) => lastObs.stored

C6_Witness ==
    /\ diagFile.made
    /\ diagFile.times = IntervalPolicy(900)
    /\ lastObs.called /\ lastObs.stored
    /\ lastObs.time % SecondsPerDay = 45900

C6_WitnessRefused ==
    ctor.kind = "IntervalTimes" /\ ctor.frequency_seconds = 86401
        /\ ctor.status = "ValueError" /\ ~diagFile.made

(***************************************************************************)
(* Claims about the ReservoirComputingModel (checked under SpecReservoir). *)
(***************************************************************************)
\* the state after feeding the inputs one by one, in order, from state st
RECURSIVE StateAfterInputs(_, _)
StateAfterInputs(st, inputs) ==
    IF inputs = <<>> THEN st
    ELSE StateAfterInputs(
             [i \in 1..Len(st) |->
                 Tanh(SumSeq([j \in 1..Len(st) |-> rcModel.W_res[i][j] * st[j]])
                      + SumSeq([j \in 1..Len(Head(inputs)) |->
                                   rcModel.W_in[i][j] * Head(inputs)[j]]))],
             Tail(inputs))

\* C7: predict leaves the hidden state as it was, and a predict that directly
\* follows a predict returns the same output; reset_state leaves the state all
\* zero; increment_state gives one step of the state, synchronize one step per
\* element of its sequence, in order; no other call changes the state.
C7_StateProtocol ==
    /\ rcCall.op = "predict" => rcModel.state = rcCall.before
    /\ (rcCall.op = "predict" /\ rcCall.prevOp = "predict") => rcOut = rcCall.prevOut
    /\ rcCall.op = "reset_state" => \A i \in 1..Len(rcModel.state) : rcModel.state[i] = 0
    /\ rcCall.op \in {"increment_state", "synchronize"}
          => rcModel.state = StateAfterInputs(rcCall.before, rcCall.input)
    /\ (rcCall.op \notin {"none", "__init__"} /\ rcModel.state # rcCall.before)
          => rcCall.op \in {"increment_state", "synchronize", "reset_state"}

C7_Witness ==
    /\ rcCall.op = "predict" /\ rcCall.prevOp = "predict"
    /\ \E i \in 1..Len(rcModel.state) : rcModel.state[i] # 0
    /\ rcOut = rcCall.prevOut
    /\ \E i \in 1..Len(rcOut) : rcOut[i] # 0

(***************************************************************************)
(* Claims about the ArrayPacker (checked under SpecPacker).                *)
(***************************************************************************)
\* C8 as stated: on a packer made by the constructor, to_dataset before any
\* to_array call raises the must-pack-before-unpack error and leaves the packer
\* as it was; after at least one to_array call, however it ended, to_dataset
\* does not raise that error.
C8_AnyToArrayCallSuffices ==
    (pkCall.op = "to_dataset" /\ pkCall.seenBefore.origin = "__init__")
        => /\ ~pkCall.seenBefore.called
                => (pkCall.status = "RuntimeError" /\ packer = pkCall.before)
           /\ pkCall.seenBefore.called => pkCall.status # "RuntimeError"

\* C8 (amended): on a packer made by the constructor, to_dataset raises the
\* must-pack-before-unpack error and leaves the packer as it was whenever no
\* to_array call has returned yet (none was made, or each one raised because the
\* dataset lacked a packed variable); once a to_array call has returned,
\* to_dataset does not raise that error.
C8_MustPackBeforeUnpack ==
    (pkCall.op = "to_dataset" /\ pkCall.seenBefore.origin = "__init__")
        => /\ ~pkCall.seenBefore.packed
                => (pkCall.status = "RuntimeError" /\ packer = pkCall.before)
           /\ pkCall.seenBefore.packed => pkCall.status # "RuntimeError"

\* to_dataset has raised the error on a fresh packer, and, in another run,
\* has returned a dataset after a packing
C8_Witness ==
    /\ pkCall.op = "to_dataset" /\ pkCall.seenBefore.origin = "__init__"
    /\ pkCall.seenBefore.packed
    /\ pkCall.status = "ok"
    /\ packer._indices # None

C8_WitnessRaised ==
    /\ pkCall.op = "to_dataset" /\ pkCall.seenBefore.origin = "__init__"
    /\ ~pkCall.seenBefore.called
    /\ pkCall.status = "RuntimeError"

(***************************************************************************)
(* Claims about precipitation_sum (checked under SpecPrecip).              *)
(***************************************************************************)
\* physics_precip - column_dq2*dt/1000 in thousandths; defined for numbers only
UnclampedTotal(i) ==
    precipCall.physics_precip[i].v
        - (precipCall.column_dq2[i].v * precipCall.dt.v) \div (Thousandths * Thousandths)

IsNumber(i) == ~precipCall.physics_precip[i].nan /\ ~precipCall.column_dq2[i].nan

\* C9: every element of the result of precipitation_sum is a number >= 0; it
\* equals physics_precip - column_dq2*dt/1000 where that value is >= 0, and 0
\* where it is negative or not a number.
C9_PrecipitationSum ==
    precipCall.called =>
        /\ Len(precipCall.result.data) = Len(precipCall.physics_precip)
        /\ \A i \in 1..Len(precipCall.result.data) :
              LET r == precipCall.result.data[i]
              IN /\ ~r.nan /\ r.v >= 0
                 /\ IF IsNumber(i) /\ UnclampedTotal(i) >= 0
                    THEN r.v = UnclampedTotal(i)
                    ELSE r.v = 0

\* one element was thresholded to 0 and another kept its positive total
C9_Witness ==
    /\ precipCall.called
    /\ \E i \in 1..Len(precipCall.result.data) :
          IsNumber(i) /\ UnclampedTotal(i) < 0 /\ precipCall.result.data[i].v = 0
    /\ \E i \in 1..Len(precipCall.result.data) :
          IsNumber(i) /\ UnclampedTotal(i) > 0
             /\ precipCall.result.data[i].v = UnclampedTotal(i)

(***************************************************************************)
(* Claims about the emulation hooks (checked under SpecEmu).               *)
(***************************************************************************)
\* position of the last routed timestep within its interval
OffsetInInterval ==
    (emuCall.time - Value(emuConfig.online_schedule).initial_time)
        % Value(emuConfig.online_schedule).period

\* C10: with an online_schedule interval configured, each timestep in the first
\* half of an interval is routed to the physics and each timestep in the second
\* half to the emulator, in every interval of the run.
C10_ScheduleRouting ==
    (emuCall.called /\ emuConfig.online_schedule # None) =>
        /\ 2 * OffsetInInterval < Value(emuConfig.online_schedule).period
              => emuCall.route = "physics"
        /\ 2 * OffsetInInterval >= Value(emuConfig.online_schedule).period
              => emuCall.route = "emulator"

\* a timestep in the first half of a later interval went to the physics
C10_Witness ==
    /\ emuCall.called /\ emuConfig.online_schedule # None
    /\ emuCall.time - Value(emuConfig.online_schedule).initial_time
          > Value(emuConfig.online_schedule).period
    /\ 2 * OffsetInInterval < Value(emuConfig.online_schedule).period
    /\ emuCall.route = "physics"

(***************************************************************************)
(* Claims about get_hooks (checked under SpecHooks).                       *)
(***************************************************************************)
ThreeNoOpHooks ==
    /\ hkCall.status = "ok"
    /\ hkCall.hooks = <<do_nothing, do_nothing, do_nothing>>
    /\ ModelsLoaded(hkCall.hooks) = {}

\* C11: with no fv3config.yml, get_hooks does not raise; it returns the three
\* hooks gscond, model, storage, each the no-op do_nothing, and loads no model.
C11_MissingFileGivesNoOps ==
    (hkCall.called /\ ~hkFile.exists) => ThreeNoOpHooks

C11_Witness ==
    /\ hkCall.called /\ ~hkFile.exists
    /\ hkCall.warned
    /\ Len(hkCall.hooks) = 3
    /\ \A k \in 1..3 : hkCall.hooks[k].kind = "do_nothing"

\* the file holds no mapping with the key zhao_carr_emulation
NoConfigKey ==
    hkFile.exists
        /\ (hkFile.text.kind = "empty"
               \/ (hkFile.text.kind = "mapping" /\ config_key \notin hkFile.text.keys))

\* C12: with an fv3config.yml that has no zhao_carr_emulation key, an empty
\* document included, get_hooks does not raise and returns three no-op hooks,
\* as for a missing file.
C12_MissingKeyGivesNoOps ==
    (hkCall.called /\ NoConfigKey) => ThreeNoOpHooks

(***************************************************************************)
(* Claims about wait_for_complete (checked under SpecKube, and under       *)
(* SpecKubeFair for termination).                                          *)
(***************************************************************************)
\* C13: wait_for_complete returns after finitely many list calls when every
\* job matching the selector eventually stops being active, and also when no
\* job matches at all.
C13_WaitTerminates == (kWait.pc = "polling") ~> (kWait.pc = "done")

\* the wait has returned after polling more than once, and, in another run,
\* with no matching job
C13_Witness ==
    /\ kWait.pc = "done"
    /\ kApi.num_list_calls >= 2
    /\ MatchingJobs(kJobs) # <<>>

C13_WitnessNoJobs == kWait.pc = "done" /\ MatchingJobs(kJobs) = <<>>

InList(name, list) == \E k \in 1..Len(list) : list[k] = name
Occurrences(name, list) == Cardinality({k \in 1..Len(list) : list[k] = name})

\* C14: when wait_for_complete has returned, each job matching the selector
\* is in exactly one of the two lists, once: in the success list iff it
\* succeeded, in the failure list iff it failed; no other job is in a list, and
\* 4 jobs of which 3 succeeded give lists of lengths 3 and 1.
C14_Classification ==
    kWait.pc = "done" =>
        /\ \A i \in 1..Len(kJobs) :
              IF kJobs[i].match
              THEN /\ Occurrences(kJobs[i].name, kWait.success)
                         + Occurrences(kJobs[i].name, kWait.fail) = 1
                   /\ InList(kJobs[i].name, kWait.success) <=> kJobs[i].succeeded
                   /\ InList(kJobs[i].name, kWait.fail) <=> kJobs[i].failed
              ELSE /\ ~InList(kJobs[i].name, kWait.success)
                   /\ ~InList(kJobs[i].name, kWait.fail)
        /\ (Len(MatchingJobs(kJobs)) = 4
               /\ Len(SelectSeq(kJobs, LAMBDA job : job.match /\ job.succeeded)) = 3)
              => (Len(kWait.success) = 3 /\ Len(kWait.fail) = 1)

C14_Witness ==
    /\ kWait.pc = "done"
    /\ kApi.mock
    /\ Len(kJobs) = 4
    /\ Len(kWait.success) = 3
    /\ Len(kWait.fail) = 1

(***************************************************************************)
(* Claims about rerun_fv3.main (checked under SpecRerun).                  *)
(***************************************************************************)
Positions(ev) == {k \in 1..Len(rrTrace) : rrTrace[k].ev = ev}
Happened(ev) == Positions(ev) # {}
PositionOf(ev) == CHOOSE k \in Positions(ev) : TRUE

\* the steps of main other than the authentication start with the download
DownloadFirst ==
    \A k \in 1..Len(rrTrace) :
        rrTrace[k].ev \notin {"authenticate", "download"}
            => \E d \in Positions("download") : d < k

\* before the run, the transformations 1..n were applied once each, in order,
\* after the download
TransformsInOrderBeforeRun ==
    Happened("run_experiment") =>
        /\ Cardinality(Positions("run_experiment")) = 1
        /\ Cardinality(Positions("transform")) = rrCall.n_transforms
        /\ \A k \in Positions("transform") :
              /\ k < PositionOf("run_experiment")
              /\ rrTrace[k].i = Cardinality({j \in Positions("transform") : j <= k})

\* the upload follows a run that returned
UploadOnlyAfterRun ==
    Happened("upload") =>
        /\ Happened("run_experiment")
        /\ PositionOf("run_experiment") < PositionOf("upload")
        /\ rrRaised.from # "run_experiment"

RunRaised == rrPc = "raised" /\ rrRaised.from = "run_experiment"

\* C15 as stated: download, transformations in order, run, upload; whatever the
\* run raises, the listing is logged, the exception propagates, nothing is
\* uploaded.
C15_AnyRunFailureIsLogged ==
    /\ DownloadFirst /\ TransformsInOrderBeforeRun /\ UploadOnlyAfterRun
    /\ RunRaised => (Happened("listing") /\ ~Happened("upload"))

\* C15 (amended): download, transformations in order, run, upload; when the
\* run raises, the same exception propagates and nothing is uploaded, and the
\* listing is logged when what was raised is an Exception (the handler does not
\* catch other BaseExceptions such as KeyboardInterrupt).
C15_OrderAndFailure ==
    /\ DownloadFirst /\ TransformsInOrderBeforeRun /\ UploadOnlyAfterRun
    /\ RunRaised =>
          /\ ~Happened("upload")
          /\ rrRaised.kind \in RrErrors
          /\ IsException(rrRaised.kind) =>
                rrTrace[Len(rrTrace)] = Event("listing", 0)
    /\ (rrPc # "idle" /\ ~RunRaised) => ~Happened("listing")

\* a run with two transformations failed and its listing was logged
C15_Witness ==
    /\ RunRaised /\ IsException(rrRaised.kind)
    /\ rrCall.n_transforms = 2
    /\ Happened("listing")
    /\ ~Happened("upload")

C15_WitnessUploaded ==
    rrPc = "returned" /\ rrCall.n_transforms = 2 /\ Happened("upload")

(***************************************************************************)
(* Claims about prognostic_run.py (checked under SpecProgRun).             *)
(***************************************************************************)
PrPositions(ev) == {k \in 1..Len(prTrace) : prTrace[k].ev = ev}

\* C16: api.create is called once, before any api.append; api.append is then
\* called --segments times, one after another, on the url of the create; when
\* create or an append raises, no further append is made and the artifact is
\* not logged.
C16_SegmentOrder ==
    /\ Cardinality(PrPositions("create")) <= 1
    /\ \A k \in 1..Len(prTrace) :
          /\ prTrace[k].url = prUrl
          /\ prTrace[k].ev = "create" => k = 1
          /\ prTrace[k].ev = "append" => (k > 1 /\ prTrace[k - 1].ev \in {"create", "append"})
    /\ Cardinality(PrPositions("append")) <= prArgs.segments
    /\ PrPositions("log_artifact") # {}
          => /\ Cardinality(PrPositions("create")) = 1
             /\ Cardinality(PrPositions("append")) = prArgs.segments
             /\ PrPositions("log_artifact") = {Len(prTrace)}
    /\ (prPc = "raised" /\ prTrace[Len(prTrace)].ev \in {"create", "append"})
          => PrPositions("log_artifact") = {}

\* a run of two segments was created, extended twice and logged
C16_Witness ==
    /\ prPc = "exited"
    /\ prArgs.segments = 2
    /\ Cardinality(PrPositions("append")) = 2
    /\ PrPositions("log_artifact") # {}

C16_WitnessRaised ==
    /\ prPc = "raised"
    /\ prArgs.segments = 2
    /\ Cardinality(PrPositions("append")) = 1

(***************************************************************************)
(* Claims about nc_dir_to_tfdataset (checked under SpecNcDir).             *)
(***************************************************************************)
\* the listed files whose basename the pattern matches, in listing order
NcMatching ==
    IF ncCall.match = None THEN ncCall.listing
    ELSE SelectSeq(ncCall.listing,
                   LAMBDA f : re_search(Value(ncCall.match), f[2]))

NcExpectedLength ==
    IF ncCall.nfiles = None THEN Len(NcMatching)
    ELSE Min(Value(ncCall.nfiles), Len(NcMatching))

\* C17: the files selected are a duplicate-free subset of the files whose
\* basename matches, min(nfiles, number matching) of them (all of them when
\* nfiles is unset); without shuffle they are the first nfiles matching files in
\* listing order.
C17_FileSelection ==
    ncCall.called =>
        /\ \A i \in 1..Len(ncCall.files) :
              \E k \in 1..Len(NcMatching) : NcMatching[k] = ncCall.files[i]
        /\ \A i, j \in 1..Len(ncCall.files) :
              ncCall.files[i] = ncCall.files[j] => i = j
        /\ Len(ncCall.files) = NcExpectedLength
        /\ ~ncCall.shuffle => ncCall.files = SubSeq(NcMatching, 1, NcExpectedLength)

\* a shuffled, filtered and truncated selection that is not the first files
\* in listing order
C17_Witness ==
    /\ ncCall.called /\ ncCall.shuffle
    /\ ncCall.match # None /\ ncCall.nfiles # None
    /\ Len(NcMatching) < Len(ncCall.listing)
    /\ Len(ncCall.files) = 1 /\ Len(NcMatching) > 1
    /\ ncCall.files[1] # NcMatching[1]

C17_WitnessInOrder ==
    /\ ncCall.called /\ ~ncCall.shuffle
    /\ ncCall.match # None /\ ncCall.nfiles = Some(1)
    /\ Len(NcMatching) = 2
    /\ ncCall.files = <<NcMatching[1]>>

(***************************************************************************)
(* Claims about shuffled (checked under SpecShuffled).                     *)
(***************************************************************************)
\* the chunk sizes of the dataset shuffled, one chunk when it has none
ShChunks ==
    IF shCall.dataset.chunks = None THEN <<Len(shCall.dataset.data)>>
    ELSE Value(shCall.dataset.chunks)

\* first index of chunk j
ShStart(j) == SumSeq(SubSeq(ShChunks, 1, j - 1))

\* C18: the index order of shuffled is a permutation of 0..n-1, and the
\* indices at the positions of each chunk are the indices of that chunk: no
\* sample crosses a chunk boundary; an unchunked dataset is one chunk. The
\* result holds, at each position, the sample of the index placed there.
C18_ShuffleWithinChunks ==
    shCall.called =>
        LET n == Len(shCall.dataset.data)
        IN /\ Len(shCall.inds) = n
           /\ \A i \in 0..(n - 1) :
                 Cardinality({p \in 1..n : shCall.inds[p] = i}) = 1
           /\ \A j \in 1..Len(ShChunks) :
                 {shCall.inds[p] : p \in (ShStart(j) + 1)..(ShStart(j) + ShChunks[j])}
                    = ShStart(j)..(ShStart(j) + ShChunks[j] - 1)
           /\ \A p \in 1..n :
                 shCall.result.data[p] = shCall.dataset.data[shCall.inds[p] + 1]

\* two chunks, samples moved inside each of them
C18_Witness ==
    /\ shCall.called
    /\ Len(ShChunks) = 2 /\ ShChunks[1] = 2 /\ ShChunks[2] = 2
    /\ shCall.inds = <<1, 0, 3, 2>>

C18_WitnessUnchunked ==
    /\ shCall.called /\ shCall.dataset.chunks = None
    /\ shCall.inds = <<2, 0, 1>>

(***************************************************************************)
(* Claims about PredictionMapper.__getitem__ (checked under SpecMapper).   *)
(***************************************************************************)
PmRequested == {pmCall.variables[k] : k \in 1..Len(pmCall.variables)}
PmMissing == PmRequested \ pmCall.available

\* C19: a requested pQ1 or pQ2 that can be neither found nor derived does not
\* make the lookup fail: it is filled with zeros and a warning is emitted; a
\* missing DELP, or any other missing variable, fails with the key error.
C19_MissingVariableLookup ==
    pmCall.called =>
        /\ pmCall.result.status = "KeyError"
              <=> PmMissing \ {"pQ1", "pQ2"} # {}
        /\ pmCall.result.status = "KeyError"
              => pmCall.result.error_key \in PmMissing \ {"pQ1", "pQ2"}
        /\ pmCall.result.status = "ok"
              => /\ pmCall.result.zeros = PmMissing \cap {"pQ1", "pQ2"}
                 /\ \A v \in pmCall.result.zeros :
                       \E k \in 1..Len(pmCall.result.warnings) :
                           pmCall.result.warnings[k] = v

(***************************************************************************)
(* Claims about apply (checked under SpecApply).                           *)
(***************************************************************************)
\* the state-field name the tendency-to-state table gives a tendency name
ApStateName(name) ==
    IF name = "dQ1" THEN "air_temperature"
    ELSE IF name = "dQ2" THEN "specific_humidity" ELSE name

ApTargets == {ApStateName(apCall.tendency[k][1]) : k \in 1..Len(apCall.tendency)}

\* the last tendency, in the order of the mapping, that goes to a state field
ApLastFor(state_name) ==
    CHOOSE k \in 1..Len(apCall.tendency) :
        /\ ApStateName(apCall.tendency[k][1]) = state_name
        /\ \A j \in (k + 1)..Len(apCall.tendency) :
              ApStateName(apCall.tendency[j][1]) # state_name

ApReturned == apCall.called /\ apCall.result.status = "ok"

ApArgumentsUnchanged ==
    apCall.result.state = apCall.state /\ apCall.result.tendency = apCall.tendency

\* C20 as stated: the mapping returned has exactly one key per tendency name,
\* its state-field name, with value state[state_name] + tendency[name]*dt;
\* state fields with no tendency are absent; the arguments are unchanged.
C20_OneKeyPerTendency ==
    ApReturned =>
        /\ Keys(apCall.result.updated) = ApTargets
        /\ Len(apCall.result.updated) = Len(apCall.tendency)
        /\ \A k \in 1..Len(apCall.tendency) :
              Get(apCall.result.updated, ApStateName(apCall.tendency[k][1]))
                 = Get(apCall.state, ApStateName(apCall.tendency[k][1]))
                      + apCall.tendency[k][2] * apCall.dt
        /\ ApArgumentsUnchanged

\* C20 (amended): apply returns iff the state holds the state field of every
\* tendency; the mapping returned has one key per state-field name of a
\* tendency name, so one key per tendency name when no two of them share a
\* state field, with value state[state_name] + tendency[name]*dt for the last
\* tendency name that goes to that field; state fields with no tendency are
\* absent; the arguments are unchanged.
C20_Apply ==
    apCall.called =>
        /\ apCall.result.status = "ok" <=> ApTargets \subseteq Keys(apCall.state)
        /\ ApArgumentsUnchanged
        /\ ApReturned =>
              /\ Keys(apCall.result.updated) = ApTargets
              /\ Len(apCall.result.updated) = Cardinality(ApTargets)
              /\ \A key \in ApTargets :
                    Get(apCall.result.updated, key)
                       = Get(apCall.state, key)
                            + apCall.tendency[ApLastFor(key)][2] * apCall.dt

\* two tendencies updated two state fields and x_wind was left out
C20_Witness ==
    /\ ApReturned
    /\ Keys(apCall.tendency) = {"dQ1", "dQ2"}
    /\ Keys(apCall.result.updated) = {"air_temperature", "specific_humidity"}
    /\ "x_wind" \in Keys(apCall.state)
    /\ Get(apCall.result.updated, "air_temperature") # Get(apCall.state, "air_temperature")

\* two tendency names went to the same state field
C20_WitnessShared ==
    /\ ApReturned
    /\ Len(apCall.tendency) = 2
    /\ Len(apCall.result.updated) = 1

(***************************************************************************)
(* Claims about the runtime diagnostics (checked under SpecDiagnostics).   *)
(***************************************************************************)
DgRenamed == dgCall.op = "rename_diagnostics"
DgBefore == Value(dgCall.before)
DgAfter == Value(dgDiags)
DgPresent == ml_tendencies \cap Keys(DgBefore)
DgSuffixed(name) == name \o <<"diagnostic">>

AllZero(da) == \A z \in 1..Len(da.values) : da.values[z] = 0

\* the computed value went to the suffixed key and zeros took its place
DgMoved(name) ==
    /\ DgSuffixed(name) \in Keys(DgAfter)
    /\ Get(DgAfter, DgSuffixed(name)).values = Get(DgBefore, name).values
    /\ Len(Get(DgAfter, name).values) = Len(Get(DgBefore, name).values)
    /\ AllZero(Get(DgAfter, name))
    /\ Get(DgAfter, name).attrs = Get(DgBefore, name).attrs

\* C21 as stated: after rename_diagnostics(diags), for every name of the
\* ML-tendency set present in diags, diags[name + "_diagnostic"] holds the
\* computed value and diags[name] zeros of the same shape with the original
\* attrs; every key outside that set keeps its value; no key is removed.
C21_KeysOutsideSetKeepValue ==
    DgRenamed =>
        /\ \A name \in DgPresent : DgMoved(name)
        /\ \A key \in Keys(DgBefore) \ ml_tendencies :
              key \in Keys(DgAfter) /\ Get(DgAfter, key) = Get(DgBefore, key)
        /\ Keys(DgBefore) \subseteq Keys(DgAfter)

\* C21 (amended): as above, but the keys that keep their value are those
\* outside the set that are not the "_diagnostic" key of a name present;
\* such a key is overwritten with the computed value, its description
\* tagged "(diagnostic only)"; the keys afterwards are those before and
\* the "_diagnostic" keys of the names present.
C21_RenameDiagnostics ==
    DgRenamed =>
        /\ \A name \in DgPresent :
              /\ DgMoved(name)
              /\ AttrGet(Get(DgAfter, DgSuffixed(name)).attrs, "description")
                    = Append(AttrGet(Get(DgBefore, name).attrs, "description"),
                             " (diagnostic only)")
        /\ \A key \in Keys(DgBefore) \ ml_tendencies :
              key \notin {DgSuffixed(name) : name \in DgPresent}
                 => Get(DgAfter, key) = Get(DgBefore, key)
        /\ Keys(DgAfter) = Keys(DgBefore) \cup {DgSuffixed(name) : name \in DgPresent}

\* a computed nonzero value was moved and a key outside the set was there
C21_Witness ==
    /\ DgRenamed
    /\ \E name \in DgPresent : ~AllZero(Get(DgBefore, name))
    /\ Keys(DgBefore) \ ml_tendencies # {}

\* a second call on the same mapping found the "_diagnostic" key in place
C21_WitnessTwice ==
    /\ DgRenamed
    /\ \E name \in DgPresent : DgSuffixed(name) \in Keys(DgBefore)

\* the mapping is the union of compute_diagnostics under "machine_learning"
\* and compute_ml_momentum_diagnostics, renamed once
DgMlUnionRenamed ==
    /\ DgRenamed
    /\ dgCall.renames = 1
    /\ dgCall.label = "machine_learning"
    /\ dgCall.momentum

ColumnIntegratedMlDiagnostics ==
    { <<"net", "moistening", "due", "to", "machine", "learning">>,
      <<"column", "heating", "due", "to", "machine", "learning">>,
      <<"column", "integrated", "dQu", "stress">>,
      <<"column", "integrated", "dQv", "stress">> }

\* C28: rename_diagnostics applied to the union of the machine_learning
\* diagnostics and the ML momentum diagnostics zeroes every column
\* integrated ML diagnostic (net moistening, column heating, the column
\* integrated zonal and meridional wind tendencies) and keeps each computed
\* value under its "_diagnostic" key.
C28_EveryColumnIntegratedMlDiagnosticZeroed ==
    DgMlUnionRenamed =>
        \A name \in ColumnIntegratedMlDiagnostics :
            /\ name \in Keys(DgAfter)
            /\ AllZero(Get(DgAfter, name))
            /\ DgSuffixed(name) \in Keys(DgAfter)
            /\ Get(DgAfter, DgSuffixed(name)).values = Get(DgBefore, name).values

\* what the code does with that union: only the net moistening is moved
C28_OnlyNetMoisteningZeroed ==
    DgMlUnionRenamed =>
        /\ DgPresent = {<<"net", "moistening", "due", "to", "machine", "learning">>}
        /\ \A name \in ColumnIntegratedMlDiagnostics \ DgPresent :
              /\ Get(DgAfter, name) = Get(DgBefore, name)
              /\ DgSuffixed(name) \notin Keys(DgAfter)

\* a nonzero column heating was computed and is still reported as applied
C28_Witness ==
    /\ DgMlUnionRenamed
    /\ ~AllZero(Get(DgAfter, <<"column", "heating", "due", "to", "machine", "learning">>))
    /\ ~AllZero(Get(DgAfter, <<"column", "integrated", "dQu", "stress">>))

DgComputed == dgCall.op = "compute_diagnostics"
DgSupported == {"nudging", "machine_learning"}

\* C30: compute_diagnostics returns a mapping only for label "nudging" or
\* "machine_learning"; for any other label it fails with an error, the 3-D
\* block never being assigned; for the two labels the mapping returned holds
\* net_moistening_due_to_<label>, column_heating_due_to_<label> and the raw
\* temperature, humidity and pressure thickness, and it holds
\* net_mass_tendency_due_to_<label> iff the pressure-thickness tendency is
\* in the tendency mapping.
C30_SupportedLabels ==
    DgComputed =>
        /\ dgCall.status = "ok" => dgCall.label \in DgSupported
        /\ dgCall.label \notin DgSupported =>
              /\ dgDiags = None
              /\ DELP \in Keys(dgCall.state) => dgCall.status = "UnboundLocalError"
        /\ dgCall.status = "ok" =>
              /\ { <<"net", "moistening", "due", "to">> \o Words(dgCall.label),
                   <<"column", "heating", "due", "to">> \o Words(dgCall.label),
                   Words(TEMP), Words(SPHUM), Words(DELP) } \subseteq Keys(DgAfter)
              /\ Get(DgAfter, Words(TEMP)) = Get(dgCall.state, TEMP)
              /\ Get(DgAfter, Words(SPHUM)) = Get(dgCall.state, SPHUM)
              /\ Get(DgAfter, Words(DELP)) = Get(dgCall.state, DELP)
              /\ (<<"net", "mass", "tendency", "due", "to">> \o Words(dgCall.label))
                     \in Keys(DgAfter)
                    <=> "dQp" \in Keys(dgCall.tendency)

\* a nudging call returned the net mass tendency
C30_Witness ==
    /\ DgComputed
    /\ dgCall.status = "ok"
    /\ dgCall.label = "nudging"
    /\ <<"net", "mass", "tendency", "due", "to", "nudging">> \in Keys(DgAfter)

\* a call with another label failed on the unassigned 3-D block
C30_WitnessOtherLabel ==
    /\ DgComputed
    /\ dgCall.label = "physics"
    /\ dgCall.status = "UnboundLocalError"

(***************************************************************************)
(* Further claims about the RankDivider (checked under SpecDomain).        *)
(***************************************************************************)
\* the first two dims of the input of the last call are the rank extent
InputMatchesRankExtent ==
    /\ Len(dres.input.shape) >= 2
    /\ SubSeq(dres.input.shape, 1, 2) = divider.rank_extent

\* the shape left by cutting the x and y axes of the input to the slices
SlicedShape ==
    [k \in 1..Len(dres.input.shape) |->
        IF k \in {x_ind(divider), y_ind(divider)}
        THEN dres.slices[k].stop - dres.slices[k].start
        ELSE dres.input.shape[k]]

\* the input cell a cell of the slice comes from
SlicedFrom(idx) ==
    [k \in 1..Len(idx) |->
        IF k \in {x_ind(divider), y_ind(divider)}
        THEN idx[k] + dres.slices[k].start
        ELSE idx[k]]

\* C22: get_subdomain_tensor_slice (and therefore
\* flatten_subdomains_to_columns) fails with ValueError whenever the first
\* two dims of the input differ from rank_extent, nothing having been
\* sliced; when they match it returns exactly the elements at the x and y
\* index ranges of subdomain_slice(index, with_overlap), the trailing dims
\* untouched.
C22_TensorSlice ==
    /\ dres.op = "get_subdomain_tensor_slice" =>
          /\ ~InputMatchesRankExtent =>
                dres.status = "ValueError" /\ dres.value = NoArray
          /\ InputMatchesRankExtent =>
                /\ dres.status = "ok"
                /\ dres.value.shape = SlicedShape
                /\ Len(dres.value.data) = Prod(SlicedShape)
                /\ \A k \in 1..Prod(SlicedShape) :
                      dres.value.data[k]
                         = At(dres.input, SlicedFrom(UnravelIndex(k - 1, SlicedShape)))
    /\ (dres.op = "flatten_subdomains_to_columns" /\ ~InputMatchesRankExtent)
          => dres.status = "ValueError"

\* an inner subdomain was cut with its overlap from an array with a
\* trailing dim
C22_Witness ==
    /\ dres.op = "get_subdomain_tensor_slice"
    /\ dres.status = "ok"
    /\ Len(dres.input.shape) = 3
    /\ dres.with_overlap
    /\ divider.overlap = 1
    /\ dres.index > 0
    /\ Len(dres.value.data) > 1

\* an array of another extent was refused
C22_WitnessWrongShape ==
    /\ dres.op = "get_subdomain_tensor_slice"
    /\ ~InputMatchesRankExtent
    /\ dres.status = "ValueError"

\* C23: RankDivider construction fails with ValueError unless rank_dims is
\* exactly the two spatial dims "x" and "y": it is rejected when it contains
\* "time" or "z", when it lacks "x" or "y", and when it contains any
\* dimension other than "x" and "y".
C23_OnlyXAndYAccepted ==
    dres.op = "__init__" =>
        LET dims == dres.slices[2]
        IN /\ dres.status \in {"ok", "ValueError"}
           /\ dres.status = "ok" <=>
                 {dims[k] : k \in 1..Len(dims)} = {"x", "y"}

\* what the constructor enforces: no "time", no "z", and both "x" and "y"
C23_ConstructorChecks ==
    dres.op = "__init__" =>
        LET dims == {dres.slices[2][k] : k \in 1..Len(dres.slices[2])}
        IN dres.status = "ok" <=>
              ({"x", "y"} \subseteq dims /\ "time" \notin dims /\ "z" \notin dims)

\* C24: every RankDivider that is successfully constructed has, for both x
\* and y, a halo-free extent rank_extent - 2*overlap that is positive and a
\* multiple of the subdomain layout count of that dimension, so that side
\* length times layout count is the halo-free extent; a configuration
\* violating this is rejected.
C24_ConstructedIsDivisible ==
    divider.made =>
        \A k \in 1..2 :
            LET free == divider.rank_extent[k] - 2 * divider.overlap
            IN /\ free > 0
               /\ free % divider.subdomain_layout[k] = 0
               /\ (free \div divider.subdomain_layout[k]) * divider.subdomain_layout[k]
                     = free

(***************************************************************************)
(* Claims about assure_txyz_dims (checked under SpecTxyz).                 *)
(***************************************************************************)
TxRank(k) == Len(txCall.input[k].shape)

\* C25: for a collection in which every tensor has 3 or 4 dims,
\* assure_txyz_dims returns a collection of the same length and order, each
\* tensor of 4 dims with its shape unchanged and each tensor of shape
\* (t, x, y) with shape (t, x, y, 1); if any tensor has another number of
\* dims the call fails with ValueError and returns nothing.
C25_AssureTxyzDims ==
    txCall.called =>
        IF \A k \in 1..Len(txCall.input) : TxRank(k) \in {3, 4}
        THEN /\ txCall.status = "ok"
             /\ Len(txCall.value) = Len(txCall.input)
             /\ \A k \in 1..Len(txCall.input) :
                   /\ txCall.value[k].data = txCall.input[k].data
                   /\ txCall.value[k].shape =
                         IF TxRank(k) = 4 THEN txCall.input[k].shape
                         ELSE txCall.input[k].shape \o <<1>>
        ELSE txCall.status = "ValueError" /\ txCall.value = <<>>

\* a tensor of 4 dims and one of 3 dims went through together
C25_Witness ==
    /\ txCall.called
    /\ txCall.status = "ok"
    /\ \E j, k \in 1..Len(txCall.input) : TxRank(j) = 4 /\ TxRank(k) = 3

\* a tensor of 5 dims after a good one made the call fail
C25_WitnessRaised ==
    /\ txCall.called
    /\ txCall.status = "ValueError"
    /\ Len(txCall.input) >= 2
    /\ TxRank(1) = 3
    /\ TxRank(2) = 5

(***************************************************************************)
(* Claims about the download cache (checked under SpecNcOpen).             *)
(***************************************************************************)
\* C26: the download cache directory given by the caller is the one used to
\* open every file: for nc_dir_to_tfdataset(..., cache=c) with c set, and for
\* NCDirLoader.open_tfdataset(local_download_path=c, ...), each file of the
\* dataset is opened through open_netcdf_dataset(path, c), not through the
\* default cache directory.
C26_CallerCacheUsed ==
    (opCall.called # "none" /\ opCall.cache \notin {None, Some("")}) =>
        \A k \in 1..Len(opCall.opened) : opCall.opened[k].cache = Value(opCall.cache)

\* what the code does: every file is opened through the default directory
C26_DefaultCacheUsed ==
    opCall.called # "none" =>
        \A k \in 1..Len(opCall.opened) : opCall.opened[k].cache = CACHE_DIR

\* files were opened for a caller that gave a directory of its own
C26_Witness ==
    /\ opCall.called = "open_tfdataset"
    /\ opCall.cache = Some("/scratch")
    /\ Len(opCall.opened) >= 2

(***************************************************************************)
(* Claims about the mock cluster API (checked under SpecMock).             *)
(***************************************************************************)
\* C27: the mock cluster API bounds the poll loop: when
\* list_job_for_all_namespaces is called more than 5 times it raises
\* TimeoutError, so that a wait that keeps polling fails instead of hanging.
C27_StuckLoopRaises ==
    mkCall.calls > 5 => mkCall.status = "TimeoutError"

\* what the mock does: every call returns, and from the second call on the
\* jobs are inactive
C27_NeverRaises ==
    /\ mkCall.calls > 0 => mkCall.status = "ok"
    /\ mkCall.calls > 1 => NoneActive(mkCall.items)
    /\ mkApi.num_list_calls = mkCall.calls

\* a seventh call was made and returned
C27_Witness ==
    /\ mkCall.calls = 7
    /\ mkCall.status = "ok"
    /\ Len(mkCall.items) > 0

(***************************************************************************)
(* Claims about the feature index of the ArrayPacker (checked under        *)
(* SpecPacker).                                                            *)
(***************************************************************************)
PkMethod == pkCall.op \in {"to_array", "to_dataset", "dump"}

\* a method call left a recorded index, the names and the sample dimension
\* name as they were
PkIndexKept ==
    PkMethod =>
        /\ pkCall.before._indices # None => packer._indices = pkCall.before._indices
        /\ packer._names = pkCall.before._names
        /\ packer._sample_dim_name = pkCall.before._sample_dim_name

\* C29 as stated: the recorded index is unset after construction, is set by
\* the first to_array call (or by load), and once set is never changed or
\* cleared by a later to_array, to_dataset or dump call, also when a later
\* to_array packs another feature layout; names and sample_dim_name never
\* change after construction.
C29_FirstToArrayCallSetsIndex ==
    /\ pkCall.op = "__init__" => packer._indices = None
    /\ pkCall.op = "load" => packer._indices # None
    /\ (pkCall.op = "to_array" /\ pkCall.before._indices = None)
          => packer._indices # None
    /\ pkCall.op \in {"to_dataset", "dump"}
          => packer._indices = pkCall.before._indices
    /\ PkIndexKept

\* C29 (amended): the recorded index is unset after construction, is set by
\* the first to_array call that returns (a call that raises KeyError for a
\* missing variable sets nothing) or by load, and once set is never changed
\* or cleared by a later to_array, to_dataset or dump call, also when a
\* later to_array packs another feature layout; to_dataset and dump never
\* set it; names and sample_dim_name never change after construction.
C29_IndexSetOnce ==
    /\ pkCall.op = "__init__" => packer._indices = None
    /\ pkCall.op = "load" => packer._indices # None
    /\ (pkCall.op = "to_array" /\ pkCall.before._indices = None)
          => (packer._indices # None <=> pkCall.status = "ok")
    /\ pkCall.op \in {"to_dataset", "dump"}
          => packer._indices = pkCall.before._indices
    /\ PkIndexKept

\* a later to_array packed another number of features and the index stayed
C29_Witness ==
    /\ pkCall.op = "to_array"
    /\ pkCall.status = "ok"
    /\ pkCall.before._indices # None
    /\ packer._indices = pkCall.before._indices
    /\ Len(pkCall.value) # Len(Value(packer._indices))

\* a first to_array call raised and no index was recorded
C29_WitnessRaised ==
    /\ pkCall.op = "to_array"
    /\ pkCall.status = "KeyError"
    /\ ~pkCall.seenBefore.called
    /\ packer._indices = None

====
